---- MODULE Spec2Model ----
(***************************************************************************)
(* Model of script.module.kover: the Kodi version resolver                 *)
(* (lib/kover/__init__.py), the legacy adapter (lib/kover/k19.py) and the  *)
(* modern adapter (lib/kover/k20.py).                                      *)
(*                                                                         *)
(* Python strings are modelled as sequences of one-character strings, so   *)
(* that partition, split, lower, capitalize and int() are computed as the  *)
(* code computes them.                                                     *)
(***************************************************************************)
EXTENDS Integers, Sequences, FiniteSets, TLC

(***************************************************************************)
(* Python string primitives                                                *)
(***************************************************************************)

LowerAlphabet ==
  << "a","b","c","d","e","f","g","h","i","j","k","l","m",
     "n","o","p","q","r","s","t","u","v","w","x","y","z" >>

UpperAlphabet ==
  << "A","B","C","D","E","F","G","H","I","J","K","L","M",
     "N","O","P","Q","R","S","T","U","V","W","X","Y","Z" >>

DigitChars == << "0","1","2","3","4","5","6","7","8","9" >>

IndexIn(alphabet, c) ==
  IF \E i \in DOMAIN alphabet : alphabet[i] = c
  THEN CHOOSE i \in DOMAIN alphabet : alphabet[i] = c
  ELSE 0

\* the lower-case letter of every upper-case letter, and the reverse
LowerOfUpper ==
  [c \in { UpperAlphabet[i] : i \in DOMAIN UpperAlphabet } |->
     LowerAlphabet[IndexIn(UpperAlphabet, c)]]

UpperOfLower ==
  [c \in { LowerAlphabet[i] : i \in DOMAIN LowerAlphabet } |->
     UpperAlphabet[IndexIn(LowerAlphabet, c)]]

\* str.isupper() of a one-character slice; the empty slice is not upper.
IsUpperChar(c) == c \in DOMAIN LowerOfUpper

IsDigitChar(c) == IndexIn(DigitChars, c) > 0

DigitVal(c) == IndexIn(DigitChars, c) - 1

LowerChar(c) == IF IsUpperChar(c) THEN LowerOfUpper[c] ELSE c

UpperChar(c) == IF c \in DOMAIN UpperOfLower THEN UpperOfLower[c] ELSE c

\* str.lower()
StrLower(s) == [i \in DOMAIN s |-> LowerChar(s[i])]

\* str.capitalize(): first character upper-cased, the rest lower-cased.
StrCapitalize(s) ==
  [i \in DOMAIN s |-> IF i = 1 THEN UpperChar(s[i]) ELSE LowerChar(s[i])]

\* s[a:b] with 0-based Python slice bounds, clipped to the string.
StrSlice(s, a, b) ==
  LET hi == IF b > Len(s) THEN Len(s) ELSE b
  IN  IF a >= hi THEN << >> ELSE SubSeq(s, a + 1, hi)

\* str.startswith(prefix)
StartsWith(s, prefix) ==
  /\ Len(s) >= Len(prefix)
  /\ SubSeq(s, 1, Len(prefix)) = prefix

\* 'c' in s
HasChar(s, c) == \E i \in DOMAIN s : s[i] = c

\* index of the first occurrence of c in s, 0 when there is none
FirstIndex(s, c) ==
  IF HasChar(s, c)
  THEN CHOOSE i \in DOMAIN s : s[i] = c /\ \A j \in 1..(i - 1) : s[j] # c
  ELSE 0

\* str.partition(sep)[0] for a one-character separator
PartitionHead(s, c) ==
  IF HasChar(s, c) THEN SubSeq(s, 1, FirstIndex(s, c) - 1) ELSE s

\* str.split(sep, maxsplit) for a one-character separator
RECURSIVE StrSplit(_, _, _)
StrSplit(s, c, maxsplit) ==
  IF maxsplit = 0 \/ ~HasChar(s, c)
  THEN << s >>
  ELSE LET i == FirstIndex(s, c)
       IN  << SubSeq(s, 1, i - 1) >>
             \o StrSplit(SubSeq(s, i + 1, Len(s)), c, maxsplit - 1)

\* list[:n]
ListHead(l, n) == IF Len(l) <= n THEN l ELSE SubSeq(l, 1, n)

\* str.replace(c, '') for a one-character c
RECURSIVE StrRemove(_, _)
StrRemove(s, c) ==
  IF s = << >> THEN << >>
  ELSE IF Head(s) = c THEN StrRemove(Tail(s), c)
       ELSE << Head(s) >> \o StrRemove(Tail(s), c)

AllDigits(s) == s # << >> /\ \A i \in DOMAIN s : IsDigitChar(s[i])

RECURSIVE DigitsVal(_)
DigitsVal(s) ==
  IF s = << >> THEN 0
  ELSE 10 * DigitsVal(SubSeq(s, 1, Len(s) - 1)) + DigitVal(s[Len(s)])

\* int(str): an optional sign followed by decimal digits. (Over the alphabet
\* used here, which has no whitespace other than ' ' and no underscore.)
PyIntOk(s) ==
  IF s # << >> /\ s[1] \in {"+", "-"} THEN AllDigits(Tail(s)) ELSE AllDigits(s)

PyIntVal(s) ==
  IF s[1] = "-" THEN 0 - DigitsVal(Tail(s))
  ELSE IF s[1] = "+" THEN DigitsVal(Tail(s))
  ELSE DigitsVal(s)

\* str(int)
RECURSIVE NatToStr(_)
NatToStr(n) ==
  IF n < 10 THEN << DigitChars[n + 1] >>
  ELSE NatToStr(n \div 10) \o << DigitChars[(n % 10) + 1] >>

IntToStr(n) == IF n < 0 THEN << "-" >> \o NatToStr(0 - n) ELSE NatToStr(n)

\* Lexicographic order of Python tuples (a shorter tuple that is a prefix of a
\* longer one is the smaller).
RECURSIVE TupleLess(_, _)
TupleLess(a, b) ==
  IF b = << >> THEN FALSE
  ELSE IF a = << >> THEN TRUE
  ELSE IF Head(a) < Head(b) THEN TRUE
  ELSE IF Head(a) > Head(b) THEN FALSE
  ELSE TupleLess(Tail(a), Tail(b))

(***************************************************************************)
(* Bounds and inputs                                                       *)
(***************************************************************************)

\* How many times patch() is called in one run.
MaxPatchCalls == 2

\* "18.9.700" ... as a character sequence
Dotted(nums) ==
  IF Len(nums) = 1 THEN IntToStr(nums[1])
  ELSE IF Len(nums) = 2 THEN IntToStr(nums[1]) \o << "." >> \o IntToStr(nums[2])
  ELSE IntToStr(nums[1]) \o << "." >> \o IntToStr(nums[2])
         \o << "." >> \o IntToStr(nums[3])

LabelMajors == {18, 19, 20}
LabelMinors == {0, 1, 9, 89, 90}
LabelBuilds == {0, 700, 701}

\* What may follow the leading dotted token in System.BuildVersion.
LabelSuffixes ==
  { << >>, << "-", "R", "C", "1" >>, << " ", "G", "i", "t", ":", "2", "0" >> }

NumericLabels ==
  { Dotted(n) \o sfx :
      n \in { << a >> : a \in LabelMajors }
              \cup (LabelMajors \X LabelMinors)
              \cup (LabelMajors \X LabelMinors \X LabelBuilds),
      sfx \in LabelSuffixes }

\* Labels whose leading token is not a dotted numeric string, and the empty
\* label a host returns while the value is unavailable.
OddLabels ==
  { << >>,
    << "B", "u", "s", "y" >>,
    << "a", "b", "c" >>,
    << "2", "0", "." >>,
    << " ", "2", "0" >>,
    << "2", "0", ".", "x" >>,
    << "1", "9", ".", "1", ".", "2", ".", "3" >>,
    << "-", "1" >> }

BuildLabels == NumericLabels \cup OddLabels

(***************************************************************************)
(* State                                                                   *)
(***************************************************************************)

VARIABLES
  label,          \* xbmc.getInfoLabel('System.BuildVersion')
  pc,             \* "start", "loaded" (kover imported) or "failed" (import raised)
  version_info,   \* kover.version_info, << >> until the module is loaded
  version,        \* kover.version (the effective major), 0 until loaded
  adapter,        \* module whose names kover star-imported: "none", "k19", "k20"
  patched,        \* xbmc._patched_by_kover
  gui_ListItem,   \* the class bound to xbmcgui.ListItem: "host", "k19" or "k20"
  xbmc_attrs,     \* names _patch has bound in the xbmc namespace
  installs,       \* history: how many times xbmcgui.ListItem was assigned
  patch_calls     \* history: how many times patch() was called

loadVars == << label, pc, version_info, version, adapter, patched,
               gui_ListItem, xbmc_attrs, installs, patch_calls >>

\* One list item created through the installed ListItem class, and the host
\* object underneath it.
VARIABLES
  li_resume_time,        \* ListItem._self_resume_time
  li_resume_total_time,  \* ListItem._self_resume_total_time
  host_resume,           \* the host video tag's resume point << time, totalTime >>
  host_props,            \* the host's generic property store of the item
  op,                    \* the last call made on the item: [name, args]
  calls,                 \* the host calls that call made, in order
  out,                   \* how that call ended: [exc, ret]
  host_rejects,          \* the tag setters the host rejected during that call
  host_tag,              \* the host tags' fields: (tag, setter) -> accepted arguments
  hist_resume,           \* history: last value given for ResumeTime
  hist_total,            \* history: last value given for TotalTime
  hist_info              \* history: the item's last setInfo call [type, items, exc]

propVars == << li_resume_time, li_resume_total_time, host_resume, host_props,
               hist_resume, hist_total >>

callVars == << op, calls, out, host_rejects >>

tagVars == << host_tag, hist_info >>

\* The tag wrappers of that item.
VARIABLES
  li_videoInfoTag,   \* ListItem._self_videoInfoTag: 0 (None) or an index of wrappers
  li_musicInfoTag,   \* ListItem._self_musicInfoTag: 0 (None) or an index of wrappers
  wrappers,          \* the tag wrappers constructed so far, in order of construction
  op_tag,            \* the wrapper the last call was made on, 0 for a call on the item
  set_calls          \* history: how many setter calls were made on the wrappers

wrapVars == << li_videoInfoTag, li_musicInfoTag, wrappers, op_tag, set_calls >>

itemVars == << propVars, tagVars, callVars, wrapVars >>

\* One object of a class that mixes in GetSetMixin (legacy adapter's Actor).
VARIABLES
  actor_obj          \* the instance's attributes: name -> value

mixVars == << actor_obj >>

(***************************************************************************)
(* Python values                                                           *)
(***************************************************************************)

PyNone == [t |-> "none"]
PyInt(n) == [t |-> "int", i |-> n]
PyStr(s) == [t |-> "str", s |-> s]
PyList(l) == [t |-> "list", l |-> l]
\* a float n / d, d a power of ten
PyFloat(n, d) == [t |-> "float", n |-> n, d |-> d]
\* a dict as its items in insertion order, keys distinct
PyDict(items) == [t |-> "dict", d |-> items]
\* xbmc.Actor(*args) with args a list, xbmc.Actor(**args) with args a dict
PyActor(args) == [t |-> "actor", args |-> args]

\* bool(v)
Truthy(v) ==
  CASE v.t = "none" -> FALSE
    [] v.t = "int" -> v.i # 0
    [] v.t = "str" -> v.s # << >>
    [] v.t = "list" -> v.l # << >>
    [] v.t = "float" -> v.n # 0
    [] v.t = "dict" -> v.d # << >>
    [] OTHER -> TRUE

\* iter(v) is defined
Iterable(v) == v.t \in {"str", "list"}

\* list(v) for an iterable v
IterItems(v) ==
  IF v.t = "str" THEN [i \in DOMAIN v.s |-> PyStr(<< v.s[i] >>)] ELSE v.l

IsNumber(v) == v.t = "int"

\* A host call: the host object ("item", or the tag "Video", "Music", ...),
\* the method name and the positional arguments.
HostCall(o, m, a) == [o |-> o, m |-> m, a |-> a]

Returned(v) == [exc |-> "none", ret |-> v]
Raised(e) == [exc |-> e, ret |-> PyNone]

NoOp == [name |-> "none", args |-> << >>]

\* no setInfo call was made on the item yet
NoInfo == [type |-> << >>, items |-> << >>, exc |-> "uncalled"]

(***************************************************************************)
(* lib/kover/__init__.py                                                   *)
(***************************************************************************)

VersionDefault == << "2", "0" >>

\* ver.partition(' ')[0].split('.', 3)[:3]
VersionParts(lbl) ==
  LET ver == IF lbl = << >> THEN VersionDefault ELSE lbl
  IN  ListHead(StrSplit(PartitionHead(ver, " "), ".", 3), 3)

\* int(v.partition('-')[0]) raises ValueError for some component
VersionRaises(lbl) ==
  \E i \in DOMAIN VersionParts(lbl) :
     ~PyIntOk(PartitionHead(VersionParts(lbl)[i], "-"))

\* version_info_type(*ints), minor and build defaulting to 0
get_kodi_version_info(lbl) ==
  LET parts == VersionParts(lbl)
      ints  == [i \in DOMAIN parts |-> PyIntVal(PartitionHead(parts[i], "-"))]
  IN  [i \in 1..3 |-> IF i <= Len(ints) THEN ints[i] ELSE 0]

\* Mutant: the pre-release test written with > instead of >=.
EffectiveVersionStrictMinor(vi) ==
  IF TupleLess(vi, << 18, 9, 701 >>) THEN vi[1]
  ELSE IF TupleLess(vi, << 19, 90 >>) THEN 19
  ELSE vi[1] + (IF vi[2] > 90 THEN 1 ELSE 0)

EffectiveVersion(vi) ==
  IF TupleLess(vi, << 18, 9, 701 >>) THEN vi[1]
  ELSE IF TupleLess(vi, << 19, 90 >>) THEN 19
  ELSE vi[1] + (IF vi[2] >= 90 THEN 1 ELSE 0)

\* Mutant: the selection written with <= instead of <.
SelectedAdapterInclusive(v) == IF v <= 20 THEN "k19" ELSE "k20"

SelectedAdapter(v) == IF v < 20 THEN "k19" ELSE "k20"

\* import kover: the module body, lines 32-59
LoadModule ==
  /\ pc = "start"
  /\ IF VersionRaises(label)
     THEN /\ pc' = "failed"
          /\ UNCHANGED << version_info, version, adapter >>
     ELSE /\ pc' = "loaded"
          /\ version_info' = get_kodi_version_info(label)
          /\ version' = EffectiveVersion(version_info')
          /\ adapter' = SelectedAdapter(version')
  /\ UNCHANGED << label, patched, gui_ListItem, xbmc_attrs, installs, patch_calls >>
  /\ UNCHANGED << itemVars, mixVars >>

(***************************************************************************)
(* _patch of lib/kover/k19.py and lib/kover/k20.py                         *)
(***************************************************************************)

K19Names == { "Actor", "VideoStreamDetail", "AudioStreamDetail", "SubtitleStreamDetail" }

k19_patch ==
  IF ~patched
  THEN /\ xbmc_attrs' = xbmc_attrs \cup K19Names
       /\ gui_ListItem' = "k19"
       /\ installs' = installs + 1
       /\ patched' = TRUE
  ELSE UNCHANGED << xbmc_attrs, gui_ListItem, installs, patched >>

\* Mutant: _patch without the _patched_by_kover guard.
k20_patch_unguarded ==
  /\ gui_ListItem' = "k20"
  /\ installs' = installs + 1
  /\ patched' = TRUE
  /\ UNCHANGED xbmc_attrs

k20_patch ==
  IF ~patched
  THEN /\ gui_ListItem' = "k20"
       /\ installs' = installs + 1
       /\ patched' = TRUE
       /\ UNCHANGED xbmc_attrs
  ELSE UNCHANGED << xbmc_attrs, gui_ListItem, installs, patched >>

\* kover.patch(): _patch is the name star-imported from the selected module.
PatchK19 ==
  /\ pc = "loaded" /\ adapter = "k19"
  /\ patch_calls < MaxPatchCalls
  /\ k19_patch
  /\ patch_calls' = patch_calls + 1
  /\ UNCHANGED << label, pc, version_info, version, adapter >>
  /\ UNCHANGED << itemVars, mixVars >>

PatchK20 ==
  /\ pc = "loaded" /\ adapter = "k20"
  /\ patch_calls < MaxPatchCalls
  /\ k20_patch
  /\ patch_calls' = patch_calls + 1
  /\ UNCHANGED << label, pc, version_info, version, adapter >>
  /\ UNCHANGED << itemVars, mixVars >>

(***************************************************************************)
(* lib/kover/k20.py: ListItem properties                                   *)
(***************************************************************************)

Str_ResumeTime == << "R","e","s","u","m","e","T","i","m","e" >>
Str_resumetime == << "r","e","s","u","m","e","t","i","m","e" >>
Str_TotalTime  == << "T","o","t","a","l","T","i","m","e" >>
Str_totaltime  == << "t","o","t","a","l","t","i","m","e" >>
Str_TOTALTIME  == << "T","O","T","A","L","T","I","M","E" >>
Str_Foo        == << "F","o","o" >>
Str_foo        == << "f","o","o" >>

\* Property names and values the callers use.
PropKeys == { Str_ResumeTime, Str_resumetime, Str_TotalTime, Str_TOTALTIME,
              Str_Foo, Str_foo }

PropValues == { PyInt(0), PyInt(120), PyInt(300) }

\* The host's InfoTagVideo.setResumePoint(time, totalTime=0.0): both arguments
\* are C doubles, so None is rejected with TypeError and nothing is stored.
HostResumeAfter(call, cur) ==
  IF \E i \in DOMAIN call.a : ~IsNumber(call.a[i]) THEN cur
  ELSE IF Len(call.a) = 1 THEN << call.a[1], PyInt(0) >>
  ELSE << call.a[1], call.a[2] >>

HostResumeRaises(call) == \E i \in DOMAIN call.a : ~IsNumber(call.a[i])

\* ListItem._set_resume_point: the host calls it makes
set_resume_point_calls(rt, tt) ==
  IF rt # PyNone
  THEN IF tt = PyNone
       THEN << HostCall("Video", "setResumePoint", << tt >>) >>
       ELSE << HostCall("Video", "setResumePoint", << tt, tt >>) >>
  ELSE << >>

\* The host's generic ListItem.getProperty: keys are not case sensitive, a
\* missing property reads as the empty string.
HostGetProperty(key) ==
  IF StrLower(key) \in DOMAIN host_props THEN host_props[StrLower(key)]
  ELSE PyStr(<< >>)

HostPropsAfter(key, value) ==
  [k \in (DOMAIN host_props) \cup {StrLower(key)} |->
     IF k = StrLower(key) THEN value ELSE host_props[k]]

\* ListItem.setProperty(key, value)
K20SetProperty(key, value) ==
  LET lower_key == StrLower(key)
      rt == IF lower_key = Str_resumetime THEN value ELSE li_resume_time
      tt == IF lower_key = Str_totaltime THEN value ELSE li_resume_total_time
      cs == set_resume_point_calls(rt, tt)
  IN
  /\ op' = [name |-> "setProperty", args |-> << PyStr(key), value >>]
  /\ host_rejects' = {}
  /\ IF lower_key \in { Str_resumetime, Str_totaltime }
     THEN /\ li_resume_time' = rt
          /\ li_resume_total_time' = tt
          /\ calls' = cs
          /\ IF cs = << >>
             THEN /\ out' = Returned(PyNone)
                  /\ UNCHANGED host_resume
             ELSE /\ host_resume' = HostResumeAfter(cs[1], host_resume)
                  /\ out' = IF HostResumeRaises(cs[1])
                            THEN Raised("TypeError") ELSE Returned(PyNone)
          /\ UNCHANGED host_props
     ELSE /\ calls' = << HostCall("item", "setProperty", << PyStr(key), value >>) >>
          /\ host_props' = HostPropsAfter(key, value)
          /\ out' = Returned(PyNone)
          /\ UNCHANGED << li_resume_time, li_resume_total_time, host_resume >>
  /\ hist_resume' = IF lower_key = Str_resumetime THEN value ELSE hist_resume
  /\ hist_total' = IF lower_key = Str_totaltime THEN value ELSE hist_total

\* ListItem.getProperty(key)
K20GetProperty(key) ==
  LET lower_key == StrLower(key) IN
  /\ op' = [name |-> "getProperty", args |-> << PyStr(key) >>]
  /\ host_rejects' = {}
  /\ IF lower_key = Str_resumetime
     THEN /\ calls' = << HostCall("Video", "getResumeTime", << >>) >>
          /\ out' = Returned(host_resume[1])
     ELSE IF lower_key = Str_totaltime
     THEN /\ calls' = << HostCall("Video", "getResumeTimeTotal", << >>) >>
          /\ out' = Returned(host_resume[2])
     ELSE /\ calls' = << HostCall("item", "getProperty", << PyStr(key) >>) >>
          /\ out' = Returned(HostGetProperty(key))
  /\ UNCHANGED propVars

SetProperty ==
  /\ adapter = "k20"
  /\ \E key \in PropKeys, value \in PropValues : K20SetProperty(key, value)
  /\ UNCHANGED << mixVars, loadVars, tagVars, wrapVars >>

GetProperty ==
  /\ adapter = "k20"
  /\ \E key \in PropKeys : K20GetProperty(key)
  /\ UNCHANGED << mixVars, loadVars, tagVars, wrapVars >>

MaxProps == 2   \* pairs in one setProperties dictionary

\* The loop of setProperties with `vals[key] = value` done for every key,
\* the synthetic ones included.
RECURSIVE set_properties_loop_forwarding(_, _, _, _, _)
set_properties_loop_forwarding(items, rt, tt, vals, resume_point) ==
  IF items = << >>
  THEN [rt |-> rt, tt |-> tt, vals |-> vals, resume_point |-> resume_point]
  ELSE LET key == Head(items)[1]
           value == Head(items)[2]
           lower_key == StrLower(key)
       IN  IF lower_key = Str_resumetime
           THEN set_properties_loop_forwarding(Tail(items), value, tt,
                                               Append(vals, Head(items)), TRUE)
           ELSE IF lower_key = Str_totaltime
           THEN set_properties_loop_forwarding(Tail(items), rt, value,
                                               Append(vals, Head(items)), TRUE)
           ELSE set_properties_loop_forwarding(Tail(items), rt, tt,
                                               Append(vals, Head(items)), resume_point)

\* The loop over values.items() of setProperties, from the fields and the
\* generic pairs collected so far.
RECURSIVE set_properties_loop(_, _, _, _, _)
set_properties_loop(items, rt, tt, vals, resume_point) ==
  IF items = << >>
  THEN [rt |-> rt, tt |-> tt, vals |-> vals, resume_point |-> resume_point]
  ELSE LET key == Head(items)[1]
           value == Head(items)[2]
           lower_key == StrLower(key)
       IN  IF lower_key = Str_resumetime
           THEN set_properties_loop(Tail(items), value, tt, vals, TRUE)
           ELSE IF lower_key = Str_totaltime
           THEN set_properties_loop(Tail(items), rt, value, vals, TRUE)
           ELSE set_properties_loop(Tail(items), rt, tt,
                                    Append(vals, Head(items)), resume_point)

\* The host's property store after its own setProperties(vals).
RECURSIVE HostPropsAfterAll(_, _)
HostPropsAfterAll(props, vals) ==
  IF vals = << >> THEN props
  ELSE HostPropsAfterAll((StrLower(Head(vals)[1]) :> Head(vals)[2]) @@ props,
                          Tail(vals))

\* the last value a dictionary gives under a key that lowercases to `lower`,
\* `before` when it gives none
RECURSIVE LastGiven(_, _, _)
LastGiven(items, lower, before) ==
  IF items = << >> THEN before
  ELSE LastGiven(Tail(items), lower,
                 IF StrLower(Head(items)[1]) = lower THEN Head(items)[2] ELSE before)

\* the host calls of setProperties: the generic one, then the resume point
set_properties_calls(run) ==
  (IF run.vals # << >>
   THEN << HostCall("item", "setProperties", << PyDict(run.vals) >>) >>
   ELSE << >>)
  \o (IF run.resume_point THEN set_resume_point_calls(run.rt, run.tt) ELSE << >>)

\* ListItem.setProperties(values)
K20SetProperties(items) ==
  \E run \in { set_properties_loop(items, li_resume_time, li_resume_total_time,
                                   << >>, FALSE) } :
    \E cs \in { set_properties_calls(run) } :
      /\ op' = [name |-> "setProperties", args |-> << PyDict(items) >>]
      /\ host_rejects' = {}
      /\ li_resume_time' = run.rt
      /\ li_resume_total_time' = run.tt
      /\ calls' = cs
      /\ host_props' = HostPropsAfterAll(host_props, run.vals)
      /\ IF cs = << >> \/ cs[Len(cs)].o # "Video"
         THEN /\ out' = Returned(PyNone)
              /\ UNCHANGED host_resume
         ELSE /\ host_resume' = HostResumeAfter(cs[Len(cs)], host_resume)
              /\ out' = IF HostResumeRaises(cs[Len(cs)])
                        THEN Raised("TypeError") ELSE Returned(PyNone)
      /\ hist_resume' = LastGiven(items, Str_resumetime, hist_resume)
      /\ hist_total' = LastGiven(items, Str_totaltime, hist_total)

PropPairs == PropKeys \X PropValues

\* dictionaries of up to MaxProps properties with distinct keys, as their
\* items in order
PropDicts ==
  UNION { { d \in [1..n -> PropPairs] :
              \A i, j \in 1..n : i # j => d[i][1] # d[j][1] } : n \in 0..MaxProps }

SetProperties ==
  /\ adapter = "k20"
  /\ \E items \in PropDicts : K20SetProperties(items)
  /\ UNCHANGED << mixVars, loadVars, tagVars, wrapVars >>

(***************************************************************************)
(* lib/kover/k20.py: coercion helpers and the field-transform table        *)
(***************************************************************************)

\* The outcome of one transform step: the exception raised ("none" when it
\* returned), the value returned and the host calls it made.
StepOk(ret, cs) == [exc |-> "none", ret |-> ret, calls |-> cs]
StepFail(e, cs) == [exc |-> e, ret |-> PyNone, calls |-> cs]

\* A call of a method of the host tag; the host raises TypeError when it
\* rejects the arguments (rejected: the setters it rejects in this call).
TagCall(tag, m, args, rejected) ==
  IF m \in rejected
  THEN StepFail("TypeError", << HostCall(tag, m, args) >>)
  ELSE StepOk(PyNone, << HostCall(tag, m, args) >>)

\* s.count(c)
RECURSIVE StrCount(_, _)
StrCount(s, c) ==
  IF s = << >> THEN 0
  ELSE (IF Head(s) = c THEN 1 ELSE 0) + StrCount(Tail(s), c)

\* s.replace(a, b) for one-character a and b
StrReplaceChar(s, a, b) == [i \in DOMAIN s |-> IF s[i] = a THEN b ELSE s[i]]

Unsigned(s) == IF s # << >> /\ s[1] \in {"+", "-"} THEN Tail(s) ELSE s

\* float(str) accepts: an optional sign, then digits with at most one '.',
\* at least one digit. (Exponents, inf and nan are outside the inputs used.)
PyFloatOk(s) ==
  LET u == Unsigned(s) IN
  /\ StrCount(u, ".") <= 1
  /\ \A i \in DOMAIN u : IsDigitChar(u[i]) \/ u[i] = "."
  /\ \E i \in DOMAIN u : IsDigitChar(u[i])

RECURSIVE Pow10(_)
Pow10(k) == IF k = 0 THEN 1 ELSE 10 * Pow10(k - 1)

\* float(str) as numerator and denominator
PyFloatNum(s) ==
  LET u == Unsigned(s)
      v == DigitsVal(StrRemove(u, "."))
  IN  IF s[1] = "-" THEN 0 - v ELSE v

PyFloatDen(s) ==
  LET u == Unsigned(s)
  IN  IF HasChar(u, ".") THEN Pow10(Len(u) - FirstIndex(u, ".")) ELSE 1

\* The float n / d with d the least power of ten that represents it.
RECURSIVE NormFloat(_, _)
NormFloat(n, d) ==
  IF d > 1 /\ n % 10 = 0 THEN NormFloat(n \div 10, d \div 10) ELSE PyFloat(n, d)

\* int(x) of a quotient: truncation toward zero
TruncDiv(a, b) == IF a >= 0 THEN a \div b ELSE 0 - ((0 - a) \div b)

\* repr(v) / str(v)
RECURSIVE PyRepr(_)
RECURSIVE JoinRepr(_)
JoinRepr(l) ==
  IF l = << >> THEN << >>
  ELSE IF Len(l) = 1 THEN PyRepr(l[1])
  ELSE PyRepr(l[1]) \o << ",", " " >> \o JoinRepr(Tail(l))

PyRepr(v) ==
  CASE v.t = "int" -> IntToStr(v.i)
    [] v.t = "str" -> << "'" >> \o v.s \o << "'" >>
    [] v.t = "none" -> << "N", "o", "n", "e" >>
    [] v.t = "list" -> << "[" >> \o JoinRepr(v.l) \o << "]" >>
    [] OTHER -> << "?" >>

PyStrOf(v) == IF v.t = "str" THEN v.s ELSE PyRepr(v)

\* Actor(*a): a is unpacked; the host's Actor takes at most four arguments
\* (name, role, order, thumbnail).
ActorOk(a) == Iterable(a) /\ Len(IterItems(a)) <= 4

\* tag.setCast([Actor(*a) for a in actors])
CastFromTuples(tag, actors, rejected) ==
  IF ~Iterable(actors) THEN StepFail("TypeError", << >>)
  ELSE LET items == IterItems(actors) IN
       IF \E i \in DOMAIN items : ~ActorOk(items[i])
       THEN StepFail("TypeError", << >>)
       ELSE TagCall(tag, "setCast",
                    << PyList([i \in DOMAIN items |-> PyActor(PyList(IterItems(items[i])))]) >>,
                    rejected)

set_cast_and_role(tag, actors, rejected) == CastFromTuples(tag, actors, rejected)

\* Actor(**a) for a dict a: keyword arguments
CastFromDicts(tag, actors, rejected) ==
  LET items == IterItems(actors) IN
  IF \E i \in DOMAIN items : items[i].t # "dict"
  THEN StepFail("TypeError", << >>)
  ELSE TagCall(tag, "setCast",
               << PyList([i \in DOMAIN items |-> PyActor(items[i])]) >>, rejected)

set_cast(tag, actors, rejected) ==
  IF ~Truthy(actors) THEN StepOk(PyNone, << >>)
  ELSE IF actors.t = "dict" THEN StepFail("KeyError", << >>)
  ELSE IF ~Iterable(actors) THEN StepFail("TypeError", << >>)
  ELSE IF IterItems(actors)[1].t = "dict"
  THEN CastFromDicts(tag, actors, rejected)
  ELSE CastFromTuples(tag, actors, rejected)

set_imdb_number(tag, imdb, rejected) ==
  TagCall(tag, "setUniqueID",
          << PyStr(PyStrOf(imdb)), PyStr(<< "i", "m", "d", "b" >>) >>, rejected)

set_exif_resolution(tag, res, rejected) ==
  IF res.t # "str" THEN StepFail("AttributeError", << >>)
  ELSE LET wh == StrSplit(res.s, ",", Len(res.s)) IN
       IF Len(wh) # 2 THEN StepFail("ValueError", << >>)
       ELSE IF ~PyIntOk(wh[1]) \/ ~PyIntOk(wh[2])
       THEN StepFail("ValueError", << >>)
       ELSE TagCall(tag, "setResolution",
                    << PyInt(PyIntVal(wh[1])), PyInt(PyIntVal(wh[2])) >>, rejected)

one_or_more(value) ==
  StepOk(IF value.t = "list" THEN value ELSE PyList(<< value >>), << >>)

\* int(value) if value else -1, for what is left after the str branch
IntOrMinusOne(value) ==
  IF ~Truthy(value) THEN StepOk(PyInt(0 - 1), << >>)
  ELSE CASE value.t = "str" ->
              IF PyIntOk(value.s) THEN StepOk(PyInt(PyIntVal(value.s)), << >>)
              ELSE StepFail("ValueError", << >>)
         [] value.t = "float" -> StepOk(PyInt(TruncDiv(value.n, value.d)), << >>)
         [] OTHER -> StepFail("TypeError", << >>)

int_or_none(value) ==
  IF value.t = "int" THEN StepOk(value, << >>)
  ELSE IF value.t = "str"
  THEN LET v == StrRemove(value.s, ",") IN
       IF HasChar(v, ".")
       THEN IF PyFloatOk(v)
            THEN StepOk(PyInt(TruncDiv(2 * PyFloatNum(v) + PyFloatDen(v),
                                       2 * PyFloatDen(v))), << >>)
            ELSE StepFail("ValueError", << >>)
       ELSE IntOrMinusOne(PyStr(v))
  ELSE IntOrMinusOne(value)

\* float(value) if value else -1
FloatOrMinusOne(value) ==
  IF ~Truthy(value) THEN StepOk(PyInt(0 - 1), << >>)
  ELSE CASE value.t = "str" ->
              IF PyFloatOk(value.s)
              THEN StepOk(NormFloat(PyFloatNum(value.s), PyFloatDen(value.s)), << >>)
              ELSE StepFail("ValueError", << >>)
         [] OTHER -> StepFail("TypeError", << >>)

float_or_none(value) ==
  IF value.t \in {"int", "float"} THEN StepOk(value, << >>)
  ELSE IF value.t = "str"
  THEN IF StrCount(value.s, ",") = 1 /\ StrCount(value.s, ".") = 0
       THEN FloatOrMinusOne(PyStr(StrReplaceChar(value.s, ",", ".")))
       ELSE FloatOrMinusOne(value)
  ELSE FloatOrMinusOne(value)

\* An entry of a transform chain: the name of a setter of the tag, or one of
\* the helper functions above.
Setter(name) == [kind |-> "setter", name |-> name]
Helper(name) == [kind |-> "helper", name |-> name]

\* info_label_keys.get(k): the chain of key k, << >> for None (no chain of the
\* table is empty)
info_label_keys_get(k) ==
  CASE k = << "a","i","r","e","d" >>
         -> << Setter("setFirstAired") >>
    [] k = << "a","l","b","u","m" >>
         -> << Setter("setAlbum") >>
    [] k = << "a","r","t","i","s","t" >>
         -> << Setter("setArtists") >>
    [] k = << "c","a","s","t","a","n","d","r","o","l","e" >>
         -> << Helper("set_cast_and_role") >>
    [] k = << "c","a","s","t" >>
         -> << Helper("set_cast") >>
    [] k = << "c","o","d","e" >>
         -> << Setter("setProductionCode") >>
    [] k = << "c","o","u","n","t","r","y" >>
         -> << Helper("one_or_more"), Setter("setCountries") >>
    [] k = << "c","r","e","d","i","t","s" >>
         -> << Helper("one_or_more"), Setter("setWriters") >>
    [] k = << "d","a","t","e","a","d","d","e","d" >>
         -> << Setter("setDateAdded") >>
    [] k = << "d","b","i","d" >>
         -> << Helper("int_or_none"), Setter("setDbId") >>
    [] k = << "d","i","r","e","c","t","o","r" >>
         -> << Helper("one_or_more"), Setter("setDirectors") >>
    [] k = << "d","u","r","a","t","i","o","n" >>
         -> << Helper("int_or_none"), Setter("setDuration") >>
    [] k = << "e","p","i","s","o","d","e","g","u","i","d","e" >>
         -> << Setter("setEpisodeGuide") >>
    [] k = << "e","p","i","s","o","d","e" >>
         -> << Helper("int_or_none"), Setter("setEpisode") >>
    [] k = << "g","e","n","r","e" >>
         -> << Helper("one_or_more"), Setter("setGenres") >>
    [] k = << "i","m","d","b","n","u","m","b","e","r" >>
         -> << Helper("set_imdb_number") >>
    [] k = << "l","a","s","t","p","l","a","y","e" >>
         -> << Setter("setLastPlayed") >>
    [] k = << "m","e","d","i","a","t","y","p","e" >>
         -> << Setter("setMediaType") >>
    [] k = << "m","p","a","a" >>
         -> << Setter("setMpaa") >>
    [] k = << "o","r","i","g","i","n","a","l","t","i","t","l","e" >>
         -> << Setter("setOriginalTitle") >>
    [] k = << "p","a","t","h" >>
         -> << Setter("setPath") >>
    [] k = << "p","l","a","y","c","o","u","n","t" >>
         -> << Helper("int_or_none"), Setter("setPlaycount") >>
    [] k = << "p","l","o","t","o","u","t","l","i","n","e" >>
         -> << Setter("setPlotOutline") >>
    [] k = << "p","l","o","t" >>
         -> << Setter("setPlot") >>
    [] k = << "p","r","e","m","i","e","r","e","d" >>
         -> << Setter("setPremiered") >>
    [] k = << "r","a","t","i","n","g" >>
         -> << Helper("float_or_none"), Setter("setRating") >>
    [] k = << "s","e","a","s","o","n" >>
         -> << Helper("int_or_none"), Setter("setSeason") >>
    [] k = << "s","e","t","i","d" >>
         -> << Helper("int_or_none"), Setter("setSetId") >>
    [] k = << "s","e","t","o","v","e","r","v","i","e","w" >>
         -> << Setter("setSetOverview") >>
    [] k = << "s","e","t" >>
         -> << Setter("setSet") >>
    [] k = << "s","h","o","w","l","i","n","k" >>
         -> << Helper("one_or_more"), Setter("setShowLinks") >>
    [] k = << "s","o","r","t","e","p","i","s","o","d","e" >>
         -> << Helper("int_or_none"), Setter("setSortEpisode") >>
    [] k = << "s","o","r","t","s","e","a","s","o","n" >>
         -> << Helper("int_or_none"), Setter("setSortSeason") >>
    [] k = << "s","o","r","t","t","i","t","l","e" >>
         -> << Setter("setSortTitle") >>
    [] k = << "s","t","a","t","u","s" >>
         -> << Setter("setTvShowStatus") >>
    [] k = << "s","t","u","d","i","o" >>
         -> << Helper("one_or_more"), Setter("setStudios") >>
    [] k = << "t","a","g","l","i","n","e" >>
         -> << Setter("setTagLine") >>
    [] k = << "t","a","g" >>
         -> << Helper("one_or_more"), Setter("setTags") >>
    [] k = << "t","i","t","l","e" >>
         -> << Setter("setTitle") >>
    [] k = << "t","o","p","2","5","0" >>
         -> << Helper("int_or_none"), Setter("setTop250") >>
    [] k = << "t","r","a","c","k","n","u","m","b","e","r" >>
         -> << Helper("int_or_none"), Setter("setTrackNumber") >>
    [] k = << "t","r","a","i","l","e","r" >>
         -> << Setter("setTrailer") >>
    [] k = << "t","v","s","h","o","w","t","i","t","l","e" >>
         -> << Setter("setTvShowTitle") >>
    [] k = << "u","s","e","r","r","a","t","i","n","g" >>
         -> << Helper("int_or_none"), Setter("setUserRating") >>
    [] k = << "v","o","t","e","s" >>
         -> << Helper("int_or_none"), Setter("setVotes") >>
    [] k = << "w","a","t","c","h","e","d" >>
         -> << Helper("int_or_none"), Setter("setPlaycount") >>
    [] k = << "w","r","i","t","e","r" >>
         -> << Helper("one_or_more"), Setter("setWriters") >>
    [] k = << "y","e","a","r" >>
         -> << Helper("int_or_none"), Setter("setYear") >>
    [] k = << "c","o","m","m","e","n","t" >>
         -> << Setter("setComment") >>
    [] k = << "d","i","s","c","n","u","m","b","e","r" >>
         -> << Setter("setDisc") >>
    [] k = << "l","i","s","t","e","n","e","r","s" >>
         -> << Helper("int_or_none"), Setter("setListeners") >>
    [] k = << "l","y","r","i","c","s" >>
         -> << Setter("setLyrics") >>
    [] k = << "m","u","s","i","c","b","r","a","i","n","z","a","l","b","u","m","a","r","t","i","s","t","i","d" >>
         -> << Setter("setMusicBrainzAlbumArtistID") >>
    [] k = << "m","u","s","i","c","b","r","a","i","n","z","a","l","b","u","m","i","d" >>
         -> << Setter("setMusicBrainzAlbumID") >>
    [] k = << "m","u","s","i","c","b","r","a","i","n","z","a","r","t","i","s","t","i","d" >>
         -> << Setter("setMusicBrainzArtistID") >>
    [] k = << "m","u","s","i","c","b","r","a","i","n","z","t","r","a","c","k","i","d" >>
         -> << Setter("setMusicBrainzTrackID") >>
    [] k = << "e","x","i","f",":","r","e","s","o","l","u","t","i","o","n" >>
         -> << Helper("set_exif_resolution") >>
    [] k = << "e","x","i","f",":","e","x","i","f","t","i","m","e" >>
         -> << Setter("setDateTimeTaken") >>
    [] k = << "d","e","v","e","l","o","p","e","r" >>
         -> << Setter("setDeveloper") >>
    [] k = << "g","a","m","e","c","l","i","e","n","t" >>
         -> << Setter("setGameClient") >>
    [] k = << "g","e","n","r","e","s" >>
         -> << Setter("setGenres") >>
    [] k = << "o","v","e","r","v","i","e","w" >>
         -> << Setter("setOverview") >>
    [] k = << "p","l","a","t","f","o","r","m" >>
         -> << Setter("setPlatform") >>
    [] k = << "p","u","b","l","i","s","h","e","r" >>
         -> << Setter("setPublisher") >>
    [] OTHER -> << >>

\* operations is not None
IsInfoLabelKey(k) == info_label_keys_get(k) # << >>

InfoLabelOps(k) == info_label_keys_get(k)

\* One step of a chain: getattr(tag, op)(value) or op(tag, value)
ApplyOp(tag, o, value, rejected) ==
  IF o.kind = "setter" THEN TagCall(tag, o.name, << value >>, rejected)
  ELSE CASE o.name = "one_or_more" -> one_or_more(value)
         [] o.name = "int_or_none" -> int_or_none(value)
         [] o.name = "float_or_none" -> float_or_none(value)
         [] o.name = "set_cast_and_role" -> set_cast_and_role(tag, value, rejected)
         [] o.name = "set_cast" -> set_cast(tag, value, rejected)
         [] o.name = "set_imdb_number" -> set_imdb_number(tag, value, rejected)
         [] o.name = "set_exif_resolution" -> set_exif_resolution(tag, value, rejected)

\* for op in operations: value = ...; the first exception ends the chain.
\* cs: the host calls made so far.
RECURSIVE run_chain_from(_, _, _, _, _)
run_chain_from(tag, ops, value, rejected, cs) ==
  IF ops = << >> THEN StepOk(value, cs)
  ELSE LET step == ApplyOp(tag, Head(ops), value, rejected) IN
       IF step.exc # "none" THEN StepFail(step.exc, cs \o step.calls)
       ELSE run_chain_from(tag, Tail(ops), step.ret, rejected, cs \o step.calls)

RunChain(tag, ops, value, rejected) == run_chain_from(tag, ops, value, rejected, << >>)

(***************************************************************************)
(* lib/kover/k20.py: ListItem.setInfo                                      *)
(***************************************************************************)

Str_video == << "v","i","d","e","o" >>
Str_MUSIC == << "M","U","S","I","C" >>
Str_pictures == << "p","i","c","t","u","r","e","s" >>
Str_Video == << "V","i","d","e","o" >>
Str_Music == << "M","u","s","i","c" >>
Str_Picture == << "P","i","c","t","u","r","e" >>
Str_Game == << "G","a","m","e" >>
Str_title == << "t","i","t","l","e" >>
Str_Title == << "T","i","t","l","e" >>
Str_year == << "y","e","a","r" >>
Str_Bar == << "B","a","r" >>
Str_cast == << "c","a","s","t" >>
Str_castandrole == << "c","a","s","t","a","n","d","r","o","l","e" >>
Str_imdbnumber == << "i","m","d","b","n","u","m","b","e","r" >>
Str_rating == << "r","a","t","i","n","g" >>
Str_exif_resolution == << "e","x","i","f",":","r","e","s","o","l","u","t","i","o","n" >>
Str_GENRE == << "G","E","N","R","E" >>
Str_12_6 == << "1","2",".","6" >>
Str_abc == << "a","b","c" >>
Str_1c5 == << "1",",","5" >>
Str_640c480 == << "6","4","0",",","4","8","0" >>
Str_A == << "A" >>
Str_Hero == << "H","e","r","o" >>

\* How many pairs a dictionary given to setInfo holds at most.
MaxLabels == 2

InfoTypes == { Str_video, Str_MUSIC, Str_pictures }

CoreKeys == { Str_title, Str_Title, Str_year, Str_Bar }
CoreValues == { PyInt(7), PyStr(Str_12_6), PyStr(Str_abc) }
CorePairs == CoreKeys \X CoreValues

\* dictionaries of n pairs with distinct keys, as their items in order
RECURSIVE DictsOfLen(_)
DictsOfLen(n) ==
  IF n = 0 THEN { << >> }
  ELSE { Append(x[1], x[2]) :
           x \in { y \in DictsOfLen(n - 1) \X CorePairs :
                     \A i \in DOMAIN y[1] : y[1][i][1] # y[2][1] } }

\* one-pair dictionaries for the keys with composite or float transforms
ExtraKeys == { Str_cast, Str_castandrole, Str_imdbnumber, Str_rating,
               Str_exif_resolution, Str_GENRE }
ExtraValues ==
  { PyInt(7), PyStr(Str_1c5), PyStr(Str_640c480), PyList(<< >>),
    PyList(<< PyList(<< PyStr(Str_A), PyStr(Str_Hero) >>) >>) }

InfoDicts ==
  UNION { DictsOfLen(n) : n \in 0..MaxLabels }
    \cup { << p >> : p \in ExtraKeys \X ExtraValues }

\* The setters the host may reject in one call of setInfo.
HostRejects == { {}, {"setTitle"}, {"setYear"} }

\* The host item's tag accessors get<Type>InfoTag, by <Type>: the tag classes
\* of the host that belong to a list item.
HostTagOf(Type) ==
  CASE Type = Str_Video -> "Video"
    [] Type = Str_Music -> "Music"
    [] Type = Str_Picture -> "Picture"
    [] Type = Str_Game -> "Game"
    [] OTHER -> "missing"

\* Mutant: the key is looked up as given, not lowercased.
RECURSIVE set_info_loop_as_given(_, _, _, _, _)
set_info_loop_as_given(tag, items, rejected, labels, cs) ==
  IF items = << >> THEN [labels |-> labels, calls |-> cs, exc |-> "none"]
  ELSE LET key == Head(items)[1]
           value == Head(items)[2]
       IN  IF ~IsInfoLabelKey(key)
           THEN set_info_loop_as_given(tag, Tail(items), rejected,
                                       Append(labels, Head(items)), cs)
           ELSE LET chain == RunChain(tag, InfoLabelOps(key), value, rejected)
                IN  IF chain.exc # "none"
                    THEN [labels |-> labels, calls |-> cs \o chain.calls,
                          exc |-> chain.exc]
                    ELSE set_info_loop_as_given(tag, Tail(items), rejected,
                                                labels, cs \o chain.calls)

\* Mutant: a failing chain is logged and the loop goes on with the next pair;
\* the first exception is raised at the end (failed: that exception).
RECURSIVE set_info_loop_on(_, _, _, _, _, _)
set_info_loop_on(tag, items, rejected, labels, cs, failed) ==
  IF items = << >> THEN [labels |-> labels, calls |-> cs, exc |-> failed]
  ELSE LET key == Head(items)[1]
           value == Head(items)[2]
       IN  IF ~IsInfoLabelKey(StrLower(key))
           THEN set_info_loop_on(tag, Tail(items), rejected,
                                 Append(labels, Head(items)), cs, failed)
           ELSE LET chain == RunChain(tag, InfoLabelOps(StrLower(key)), value, rejected)
                IN  set_info_loop_on(tag, Tail(items), rejected, labels,
                                     cs \o chain.calls,
                                     IF failed = "none" THEN chain.exc ELSE failed)

set_info_loop_goes_on(tag, items, rejected, labels, cs) ==
  set_info_loop_on(tag, items, rejected, labels, cs, "none")

\* The loop over infoLabels.items(), from the labels collected and the host
\* calls made so far: the residual labels, the host calls made on the tag and
\* the exception that ended the loop ("none": it ran through).
RECURSIVE set_info_loop(_, _, _, _, _)
set_info_loop(tag, items, rejected, labels, cs) ==
  IF items = << >> THEN [labels |-> labels, calls |-> cs, exc |-> "none"]
  ELSE LET key == Head(items)[1]
           value == Head(items)[2]
       IN  IF ~IsInfoLabelKey(StrLower(key))
           THEN set_info_loop(tag, Tail(items), rejected,
                              Append(labels, Head(items)), cs)
           ELSE LET chain == RunChain(tag, InfoLabelOps(StrLower(key)), value, rejected)
                IN  IF chain.exc # "none"
                    THEN [labels |-> labels, calls |-> cs \o chain.calls,
                          exc |-> chain.exc]
                    ELSE set_info_loop(tag, Tail(items), rejected,
                                       labels, cs \o chain.calls)

\* The host tag after the calls it accepted.
RECURSIVE TagAfter(_, _, _)
TagAfter(fields, cs, rejected) ==
  IF cs = << >> THEN fields
  ELSE LET c == Head(cs)
           k == << c.o, c.m >>
           next == IF c.m \in rejected THEN fields
                   ELSE [x \in (DOMAIN fields) \cup {k} |->
                           IF x = k THEN c.a ELSE fields[x]]
       IN  TagAfter(next, Tail(cs), rejected)

\* Mutant: the residual call is made for the labels collected so far even
\* when the loop was ended by an exception.
residual_call_regardless(Type, run) ==
  IF run.labels # << >>
  THEN << HostCall("item", "setInfo", << PyStr(Type), PyDict(run.labels) >>) >>
  ELSE << >>

\* `if labels: super().setInfo(type, labels)`, reached when the loop ran through
residual_call(Type, run) ==
  IF run.exc = "none" /\ run.labels # << >>
  THEN << HostCall("item", "setInfo", << PyStr(Type), PyDict(run.labels) >>) >>
  ELSE << >>

\* ListItem.setInfo(type, infoLabels)
K20SetInfo(type, items, rejected) ==
  LET Type == StrCapitalize(type)
      tag == HostTagOf(Type)
      run == set_info_loop(tag, items, rejected, << >>, << >>)
      residual == residual_call(Type, run)
  IN
  /\ op' = [name |-> "setInfo", args |-> << PyStr(type), PyDict(items) >>]
  /\ host_rejects' = rejected
  /\ IF tag = "missing"
     THEN /\ calls' = << >>
          /\ out' = Raised("AttributeError")
          /\ UNCHANGED host_tag
     ELSE /\ calls' = run.calls \o residual
          /\ host_tag' = TagAfter(host_tag, run.calls, rejected)
          /\ out' = IF run.exc = "none" THEN Returned(PyNone) ELSE Raised(run.exc)
  /\ hist_info' = [type |-> type, items |-> items, exc |-> out'.exc]

\* setInfo is the first call on a fresh item.
SetInfo ==
  /\ adapter = "k20"
  /\ op = NoOp
  /\ \E type \in InfoTypes, items \in InfoDicts, rejected \in HostRejects :
        K20SetInfo(type, items, rejected)
  /\ UNCHANGED << mixVars, loadVars, propVars, wrapVars >>

(***************************************************************************)
(* ListItem.getVideoInfoTag / getMusicInfoTag (both adapters) and the tag  *)
(* wrappers of the legacy adapter (lib/kover/k19.py)                       *)
(***************************************************************************)

MaxDirect == 1      \* a wrapper is constructed directly while fewer than this exist
MaxSetCalls == 2    \* setter calls made on the wrappers of one item

\* a reference to the wrapper wrappers[n]
PyRef(n) == [t |-> "ref", id |-> n]

Str_music == << "m","u","s","i","c" >>

\* InfoTagVideoWrapper._type / InfoTagMusicWrapper._type
TypeOf(cls) == IF cls = "InfoTagVideoWrapper" THEN Str_video ELSE Str_music

\* InfoTagWrapper.__init__(info_tag, list_item=, list_item_self_sync=); the
\* owner is the list item (TRUE) or None (FALSE). `by` records who made it.
InfoTagWrapper_init(cls, list_item, list_item_self_sync, by) ==
  [ cls |-> cls,
    list_item |-> list_item,
    sync |-> list_item_self_sync /\ list_item,
    data |-> << >>,
    by |-> by ]

\* The wrapper an accessor constructs: the legacy one is owned by the item,
\* the modern one is a plain proxy of the host tag.
AccessorWrapper(cls, by) ==
  IF adapter = "k19"
  THEN InfoTagWrapper_init(cls, TRUE, TRUE, by)
  ELSE [ cls |-> cls, list_item |-> FALSE, sync |-> FALSE,
         data |-> << >>, by |-> by ]

\* `if self._self_videoInfoTag is None` with every access constructing anew
IsNoneAlways(cached) == TRUE

\* `if self._self_videoInfoTag is None`
IsNone(cached) == cached = 0

\* The body shared by the two accessors: cached is the item's field, and the
\* result is << the field afterwards, the wrappers afterwards >>.
get_info_tag(cached, cls, name) ==
  IF IsNone(cached)
  THEN << Len(wrappers) + 1, Append(wrappers, AccessorWrapper(cls, name)) >>
  ELSE << cached, wrappers >>

\* ListItem.getVideoInfoTag()
GetVideoInfoTag ==
  /\ adapter \in {"k19", "k20"}
  /\ LET r == get_info_tag(li_videoInfoTag, "InfoTagVideoWrapper", "getVideoInfoTag")
     IN  /\ li_videoInfoTag' = r[1]
         /\ wrappers' = r[2]
         /\ calls' = IF IsNone(li_videoInfoTag)
                     THEN << HostCall("item", "getVideoInfoTag", << >>) >>
                     ELSE << >>
         /\ out' = Returned(PyRef(r[1]))
  /\ op' = [name |-> "getVideoInfoTag", args |-> << >>]
  /\ op_tag' = 0
  /\ host_rejects' = {}
  /\ UNCHANGED << mixVars, loadVars, propVars, tagVars, li_musicInfoTag, set_calls >>

\* ListItem.getMusicInfoTag()
GetMusicInfoTag ==
  /\ adapter \in {"k19", "k20"}
  /\ LET r == get_info_tag(li_musicInfoTag, "InfoTagMusicWrapper", "getMusicInfoTag")
     IN  /\ li_musicInfoTag' = r[1]
         /\ wrappers' = r[2]
         /\ calls' = IF IsNone(li_musicInfoTag)
                     THEN << HostCall("item", "getMusicInfoTag", << >>) >>
                     ELSE << >>
         /\ out' = Returned(PyRef(r[1]))
  /\ op' = [name |-> "getMusicInfoTag", args |-> << >>]
  /\ op_tag' = 0
  /\ host_rejects' = {}
  /\ UNCHANGED << mixVars, loadVars, propVars, tagVars, li_videoInfoTag, set_calls >>

WrapperClasses == { "InfoTagVideoWrapper", "InfoTagMusicWrapper" }

\* InfoTagVideoWrapper(tag, list_item=..., list_item_self_sync=...) called by
\* the add-on itself (legacy adapter).
NewWrapper ==
  /\ adapter = "k19"
  /\ Len(wrappers) < MaxDirect
  /\ \E cls \in WrapperClasses, list_item \in BOOLEAN, self_sync \in BOOLEAN :
       /\ wrappers' = Append(wrappers,
                             InfoTagWrapper_init(cls, list_item, self_sync, "direct"))
       /\ op' = [name |-> cls, args |-> << >>]
       /\ out' = Returned(PyRef(Len(wrappers) + 1))
  /\ op_tag' = 0
  /\ calls' = << >>
  /\ host_rejects' = {}
  /\ UNCHANGED << mixVars, loadVars, propVars, tagVars, li_videoInfoTag, li_musicInfoTag,
                  set_calls >>

(***************************************************************************)
(* Tag wrappers of the legacy adapter: attribute lookup and setters        *)
(***************************************************************************)

Str_setTitle == << "s","e","t","T","i","t","l","e" >>
Str_setTrack == << "s","e","t","T","r","a","c","k" >>
Str_setDisc == << "s","e","t","D","i","s","c" >>
Str_setDbId == << "s","e","t","D","b","I","d" >>
Str_setMediaType == << "s","e","t","M","e","d","i","a","T","y","p","e" >>
Str_setDuration == << "s","e","t","D","u","r","a","t","i","o","n" >>
Str_setYear == << "s","e","t","Y","e","a","r" >>
Str_setURL == << "s","e","t","U","R","L" >>
Str_setLabel == << "s","e","t","L","a","b","e","l" >>
Str_settings == << "s","e","t","t","i","n","g","s" >>
Str_dbid == << "d","b","i","d" >>
Str_mediatype == << "m","e","d","i","a","t","y","p","e" >>
Str_duration == << "d","u","r","a","t","i","o","n" >>
Str_tracknumber == << "t","r","a","c","k","n","u","m","b","e","r" >>
Str_discnumber == << "d","i","s","c","n","u","m","b","e","r" >>
Str_track == << "t","r","a","c","k" >>
Str_movie == << "m","o","v","i","e" >>

\* dict[key] = value on a dict kept as a function of its keys
DictPut(d, key, value) ==
  [k \in (DOMAIN d) \cup {key} |-> IF k = key THEN value ELSE d[k]]

\* key[3:4].isupper()
SliceIsUpper(s) == s # << >> /\ IsUpperChar(s[1])

\* Method names the list item answers to (xbmcgui.ListItem's own methods,
\* reached by getattr(self._self_list_item, key, None)).
ItemDefines == { Str_setLabel }

\* The setters the wrapper classes define themselves, as
\* << number of positional parameters, side-table key >>; << >> for a name
\* the class does not define. setURL is defined and raises.
ExplicitSetter(cls, name) ==
  CASE name = Str_setDbId -> << 2, Str_dbid >>
    [] name = Str_setMediaType -> << 1, Str_mediatype >>
    [] name = Str_setDuration -> << 1, Str_duration >>
    [] name = Str_setYear -> << 1, Str_year >>
    [] name = Str_setTrack /\ cls = "InfoTagMusicWrapper" -> << 1, Str_tracknumber >>
    [] name = Str_setDisc /\ cls = "InfoTagMusicWrapper" -> << 1, Str_discnumber >>
    [] OTHER -> << >>

\* `key = key[3:].lower()` taken as `key = key[3:]`
SetterKeyAsGiven(key) == StrSlice(key, 3, Len(key))

\* key = key[3:].lower()
SetterKey(key) == StrLower(StrSlice(key, 3, Len(key)))

\* `if self._self_sync:` taken as always true
SyncsAlways(wr) == TRUE

\* if self._self_sync:
Syncs(wr) == wr.sync

\* self._self_data[key] = value, then the conditional
\* self._self_list_item.setInfo(self._type, {key: value}); a wrapper without
\* an owner has no setInfo to call.
persist_and_sync(wr, key, value, rejected) ==
  IF ~Syncs(wr)
  THEN [ data |-> DictPut(wr.data, key, value), calls |-> << >>, exc |-> "none" ]
  ELSE IF ~wr.list_item
  THEN [ data |-> DictPut(wr.data, key, value), calls |-> << >>,
         exc |-> "AttributeError" ]
  ELSE [ data |-> DictPut(wr.data, key, value),
         calls |-> << HostCall("item", "setInfo",
                               << PyStr(TypeOf(wr.cls)),
                                  PyDict(<< << key, value >> >>) >>) >>,
         exc |-> IF "setInfo" \in rejected THEN "TypeError" ELSE "none" ]

TagUntouched(wr, exc) == [ data |-> wr.data, calls |-> << >>, exc |-> exc ]

\* InfoTagWrapper.__getattr__(key) followed by the call of what it returned
InfoTagWrapper_getattr(wr, key, args, rejected) ==
  IF wr.list_item /\ key \in ItemDefines
  THEN [ data |-> wr.data, calls |-> << HostCall("item", key, args) >>,
         exc |-> "none" ]
  ELSE IF StartsWith(key, << "s","e","t" >>) /\ SliceIsUpper(StrSlice(key, 3, 4))
  THEN IF Len(args) = 1
       THEN persist_and_sync(wr, SetterKey(key), args[1], rejected)
       ELSE TagUntouched(wr, "TypeError")
  ELSE TagUntouched(wr, "AttributeError")

\* wrapper.<name>(*args): a method of the wrapper's class when it defines
\* one, otherwise __getattr__.
tag_method(wr, name, args, rejected) ==
  IF name = Str_setURL /\ wr.cls = "InfoTagMusicWrapper"
  THEN TagUntouched(wr, IF Len(args) = 1 THEN "NotImplementedError" ELSE "TypeError")
  ELSE IF ExplicitSetter(wr.cls, name) # << >>
  THEN IF Len(args) = ExplicitSetter(wr.cls, name)[1]
       THEN persist_and_sync(wr, ExplicitSetter(wr.cls, name)[2], args[1], rejected)
       ELSE TagUntouched(wr, "TypeError")
  ELSE InfoTagWrapper_getattr(wr, name, args, rejected)

TagNames ==
  { Str_setTitle, Str_setTrack, Str_setDisc, Str_setDbId, Str_setMediaType,
    Str_setDuration, Str_setYear, Str_setURL, Str_setLabel, Str_settings }

TagArgs == { << PyInt(7) >>, << PyStr(Str_abc) >>, << PyInt(7), PyStr(Str_movie) >> }

\* whether the host's setInfo raises on what it is given
K19HostRejects == { {}, {"setInfo"} }

\* wrapper.<method>(*args) as the last call
TagOp(method, args) == [name |-> "tag", method |-> method, args |-> args]

\* A call of a method on one of the wrappers (legacy adapter).
CallTag ==
  /\ adapter = "k19"
  /\ set_calls < MaxSetCalls
  /\ \E w \in DOMAIN wrappers, name \in TagNames, args \in TagArgs,
        rejected \in K19HostRejects :
       LET r == tag_method(wrappers[w], name, args, rejected) IN
       /\ wrappers' = [wrappers EXCEPT ![w].data = r.data]
       /\ calls' = r.calls
       /\ out' = IF r.exc = "none" THEN Returned(PyNone) ELSE Raised(r.exc)
       /\ op' = TagOp(name, args)
       /\ op_tag' = w
       /\ host_rejects' = IF r.calls = << >> THEN {} ELSE rejected
  /\ set_calls' = set_calls + 1
  /\ UNCHANGED << mixVars, loadVars, propVars, tagVars, li_videoInfoTag, li_musicInfoTag >>


(***************************************************************************)
(* lib/kover/k20.py: ListItem.setCast, addStreamInfo, setRating, getRating *)
(* and getVotes, delegating to the host's video tag                        *)
(***************************************************************************)

\* What the host tag holds for the field written by `setter`: the argument
\* of the last accepted call, or the field's value on a fresh item.
HostField(tag, setter, fresh) ==
  IF << tag, setter >> \in DOMAIN host_tag
  THEN host_tag[<< tag, setter >>][1]
  ELSE fresh

MaxCast == 2   \* actors in one setCast call

Str_name == << "n","a","m","e" >>
Str_role == << "r","o","l","e" >>
Str_order == << "o","r","d","e","r" >>
Str_thumbnail == << "t","h","u","m","b","n","a","i","l" >>
Str_B == << "B" >>
Str_extra == << "e","x","t","r","a" >>

\* d.get(key, default) for a dict kept as its items
DictGet(items, key, default) ==
  IF \E i \in DOMAIN items : items[i][1] = key
  THEN items[CHOOSE i \in DOMAIN items : items[i][1] = key][2]
  ELSE default

\* the keyword parameters of xbmc.Actor
ActorParams == { Str_name, Str_role, Str_order, Str_thumbnail }

\* Actor(**a) raises TypeError for a keyword the constructor does not have
ActorKwOk(a) == \A i \in DOMAIN a.d : a.d[i][1] \in ActorParams

\* ListItem.setCast(actors)
item_setCast(actors, rejected) ==
  IF \E i \in DOMAIN actors : ~ActorKwOk(actors[i])
  THEN StepFail("TypeError", << >>)
  ELSE TagCall("Video", "setCast",
               << PyList([i \in DOMAIN actors |-> PyActor(actors[i])]) >>, rejected)

\* The actor dictionaries given to setCast.
ActorDicts ==
  { PyDict(<< << Str_name, PyStr(Str_A) >>, << Str_role, PyStr(Str_Hero) >>,
              << Str_order, PyInt(0) >> >>),
    PyDict(<< << Str_name, PyStr(Str_B) >>, << Str_role, PyStr(Str_abc) >>,
              << Str_order, PyInt(1) >> >>),
    PyDict(<< << Str_role, PyStr(Str_Hero) >>, << Str_name, PyStr(Str_B) >> >>),
    PyDict(<< << Str_name, PyStr(Str_A) >> >>),
    PyDict(<< << Str_name, PyStr(Str_A) >>, << Str_extra, PyInt(7) >> >>) }

CastLists == UNION { [1..n -> ActorDicts] : n \in 0..MaxCast }

\* whether the host's setCast raises on what it is given
CastRejects == { {}, {"setCast"} }

SetCast ==
  /\ adapter = "k20"
  /\ \E actors \in CastLists, rejected \in CastRejects :
       LET r == item_setCast(actors, rejected) IN
       /\ op' = [name |-> "setCast", args |-> << PyList(actors) >>]
       /\ calls' = r.calls
       /\ host_tag' = TagAfter(host_tag, r.calls, rejected)
       /\ host_rejects' = IF r.calls = << >> THEN {} ELSE rejected
       /\ out' = IF r.exc = "none" THEN Returned(PyNone) ELSE Raised(r.exc)
  /\ op_tag' = 0
  /\ UNCHANGED << mixVars, loadVars, propVars, hist_info, li_videoInfoTag, li_musicInfoTag,
                  wrappers, set_calls >>

MaxStreams == 2   \* streams added to one item

Str_audio == << "a","u","d","i","o" >>
Str_subtitle == << "s","u","b","t","i","t","l","e" >>
Str_image == << "i","m","a","g","e" >>
Str_codec == << "c","o","d","e","c" >>
Str_language == << "l","a","n","g","u","a","g","e" >>
Str_channels == << "c","h","a","n","n","e","l","s" >>
Str_h264 == << "h","2","6","4" >>
Str_en == << "e","n" >>

\* a host stream detail, VideoStreamDetail(**values) and the like
PyStream(cls, values) == [t |-> "stream", cls |-> cls, kw |-> values]

\* the keyword parameters of the host's stream detail classes
StreamParams(cls) ==
  CASE cls = "VideoStreamDetail" ->
         { << "w","i","d","t","h" >>, << "h","e","i","g","h","t" >>,
           << "a","s","p","e","c","t" >>, << "d","u","r","a","t","i","o","n" >>,
           Str_codec, << "s","t","e","r","e","o","M","o","d","e" >>, Str_language,
           << "h","d","r","T","y","p","e" >> }
    [] cls = "AudioStreamDetail" -> { Str_channels, Str_codec, Str_language }
    [] OTHER -> { Str_language }

\* `else: raise ValueError` taken as `else:` the video branch
stream_branch_lenient(type) ==
  CASE type = Str_audio -> << "addAudioStream", "AudioStreamDetail" >>
    [] type = Str_subtitle -> << "addSubtitleStream", "SubtitleStreamDetail" >>
    [] OTHER -> << "addVideoStream", "VideoStreamDetail" >>

\* the if / elif chain of addStreamInfo: << tag method, detail class >>,
\* << >> for the else branch
stream_branch(type) ==
  CASE type = Str_video -> << "addVideoStream", "VideoStreamDetail" >>
    [] type = Str_audio -> << "addAudioStream", "AudioStreamDetail" >>
    [] type = Str_subtitle -> << "addSubtitleStream", "SubtitleStreamDetail" >>
    [] OTHER -> << >>

\* ListItem.addStreamInfo(type, values)
item_addStreamInfo(type, values) ==
  LET b == stream_branch(type) IN
  IF b = << >> THEN StepFail("ValueError", << >>)
  ELSE IF \E i \in DOMAIN values : values[i][1] \notin StreamParams(b[2])
  THEN StepFail("TypeError", << >>)
  ELSE StepOk(PyNone, << HostCall("Video", b[1], << PyStream(b[2], values) >>) >>)

\* the streams the host's video tag holds, as (method that added it, detail)
HostStreams == HostField("Video", "streams", PyList(<< >>)).l

\* The host tag after an add...Stream call.
StreamsAfter(cs) ==
  IF cs = << >> THEN host_tag
  ELSE [x \in (DOMAIN host_tag) \cup { << "Video", "streams" >> } |->
          IF x = << "Video", "streams" >>
          THEN << PyList(Append(HostStreams, << cs[1].m, cs[1].a[1] >>)) >>
          ELSE host_tag[x]]

StreamTypes == { Str_video, Str_audio, Str_subtitle, Str_image, Str_Video }

StreamValues ==
  { << >>, << << Str_codec, PyStr(Str_h264) >> >>, << << Str_language, PyStr(Str_en) >> >> }

AddStreamInfo ==
  /\ adapter = "k20"
  /\ Len(HostStreams) < MaxStreams
  /\ \E type \in StreamTypes, values \in StreamValues :
       LET r == item_addStreamInfo(type, values) IN
       /\ op' = [name |-> "addStreamInfo", args |-> << PyStr(type), PyDict(values) >>]
       /\ calls' = r.calls
       /\ host_tag' = StreamsAfter(r.calls)
       /\ out' = IF r.exc = "none" THEN Returned(PyNone) ELSE Raised(r.exc)
  /\ op_tag' = 0
  /\ host_rejects' = {}
  /\ UNCHANGED << mixVars, loadVars, propVars, hist_info, li_videoInfoTag, li_musicInfoTag,
                  wrappers, set_calls >>

Str_imdb == << "i","m","d","b" >>
Str_tmdb == << "t","m","d","b" >>

\* What the host's video tag holds for rating type `type`: << rating, votes >>;
\* a type never set has rating 0.0 and no votes.
HostRating(type) ==
  IF << "Video", "rating", type >> \in DOMAIN host_tag
  THEN host_tag[<< "Video", "rating", type >>]
  ELSE << PyFloat(0, 1), PyInt(0) >>

\* The host tag after InfoTagVideo.setRating(rating, votes, type, isDefault).
RatingsAfter(rating, votes, type) ==
  [x \in (DOMAIN host_tag) \cup { << "Video", "rating", type >> } |->
     IF x = << "Video", "rating", type >> THEN << rating, votes >> ELSE host_tag[x]]

RatingTypes == { Str_imdb, Str_tmdb }
RatingValues == { PyFloat(75, 10), PyFloat(6, 1) }
VoteValues == { PyInt(0), PyInt(100) }

\* ListItem.setRating(type, rating, votes=0, defaultt=False)
SetRating ==
  /\ adapter = "k20"
  /\ \E type \in RatingTypes, rating \in RatingValues, votes \in VoteValues,
        defaultt \in BOOLEAN :
       /\ op' = [name |-> "setRating",
                 args |-> << PyStr(type), rating, votes, defaultt >>]
       /\ calls' = << HostCall("Video", "setRating",
                               << rating, votes, PyStr(type), defaultt >>) >>
       /\ host_tag' = RatingsAfter(rating, votes, type)
  /\ out' = Returned(PyNone)
  /\ op_tag' = 0
  /\ host_rejects' = {}
  /\ UNCHANGED << mixVars, loadVars, propVars, hist_info, li_videoInfoTag, li_musicInfoTag,
                  wrappers, set_calls >>

\* ListItem.getRating(key)
GetRating ==
  /\ adapter = "k20"
  /\ \E key \in RatingTypes :
       /\ op' = [name |-> "getRating", args |-> << PyStr(key) >>]
       /\ calls' = << HostCall("Video", "getRating", << PyStr(key) >>) >>
       /\ out' = Returned(HostRating(key)[1])
  /\ op_tag' = 0
  /\ host_rejects' = {}
  /\ UNCHANGED << mixVars, loadVars, propVars, tagVars, li_videoInfoTag, li_musicInfoTag,
                  wrappers, set_calls >>

\* ListItem.getVotes(key): `return super().getVideoInfoTag().getRating(key)`
GetVotes ==
  /\ adapter = "k20"
  /\ \E key \in RatingTypes :
       /\ op' = [name |-> "getVotes", args |-> << PyStr(key) >>]
       /\ calls' = << HostCall("Video", "getRating", << PyStr(key) >>) >>
       /\ out' = Returned(HostRating(key)[1])
  /\ op_tag' = 0
  /\ host_rejects' = {}
  /\ UNCHANGED << mixVars, loadVars, propVars, tagVars, li_videoInfoTag, li_musicInfoTag,
                  wrappers, set_calls >>

(***************************************************************************)
(* Tag wrappers of the modern adapter (lib/kover/k20.py): proxies of the   *)
(* host's tags with the legacy single-value getters added                  *)
(***************************************************************************)

Str_getTitle == << "g","e","t","T","i","t","l","e" >>
Str_getGenre == << "g","e","t","G","e","n","r","e" >>
Str_getCast == << "g","e","t","C","a","s","t" >>

\* the host tag a wrapper of class cls proxies
HostTagOfWrapper(cls) == IF cls = "InfoTagVideoWrapper" THEN "Video" ELSE "Music"

\* InfoTagVideo.getTitle() / InfoTagMusic.getTitle(), reached through the proxy
k20_getTitle(tag) ==
  [ calls |-> << HostCall(tag, "getTitle", << >>) >>,
    out |-> Returned(HostField(tag, "setTitle", PyStr(<< >>))) ]

\* InfoTagVideoWrapper.getGenre: `if genres: return genres[0]`
video_getGenre(genres) ==
  IF Truthy(genres) THEN Returned(genres.l[1]) ELSE Returned(PyNone)

\* InfoTagMusicWrapper.getGenre: `return lst[0] if lst else ''`
music_getGenre(lst) ==
  IF Truthy(lst) THEN Returned(lst.l[1]) ELSE Returned(PyStr(<< >>))

\* wrapper.getGenre()
k20_getGenre(tag) ==
  LET genres == HostField(tag, "setGenres", PyList(<< >>)) IN
  [ calls |-> << HostCall(tag, "getGenres", << >>) >>,
    out |-> IF tag = "Video" THEN video_getGenre(genres) ELSE music_getGenre(genres) ]

\* Actor.getName() / Actor.getRole() of a host actor made from keywords
ActorArg(actor, pos, key) ==
  IF actor.args.t = "dict" THEN DictGet(actor.args.d, key, PyStr(<< >>))
  ELSE IF Len(actor.args.l) >= pos THEN actor.args.l[pos]
  ELSE PyStr(<< >>)

ActorName(actor) == ActorArg(actor, 1, Str_name).s
ActorRole(actor) == ActorArg(actor, 2, Str_role).s

\* `'\n'.join(...)` taken as `''.join(...)`
RECURSIVE JoinLinesBare(_)
JoinLinesBare(lines) ==
  IF lines = << >> THEN << >> ELSE lines[1] \o JoinLinesBare(Tail(lines))

\* '\n'.join(lines)
RECURSIVE JoinLines(_)
JoinLines(lines) ==
  IF lines = << >> THEN << >>
  ELSE IF Len(lines) = 1 THEN lines[1]
  ELSE lines[1] \o << "\n" >> \o JoinLines(Tail(lines))

\* InfoTagVideoWrapper.getCast(); the music wrapper has none and the host's
\* music tag neither
k20_getCast(tag) ==
  IF tag # "Video"
  THEN [ calls |-> << >>, out |-> Raised("AttributeError") ]
  ELSE LET actors == HostField(tag, "setCast", PyList(<< >>)).l IN
       [ calls |-> << HostCall(tag, "getActors", << >>) >>,
         out |-> Returned(PyStr(JoinLines(
                   [i \in DOMAIN actors |->
                      ActorName(actors[i]) \o << ":", " " >> \o ActorRole(actors[i])]))) ]

\* wrapper.<name>() for the getters modelled
k20_tag_method(cls, name) ==
  IF name = Str_getGenre THEN k20_getGenre(HostTagOfWrapper(cls))
  ELSE IF name = Str_getCast THEN k20_getCast(HostTagOfWrapper(cls))
  ELSE k20_getTitle(HostTagOfWrapper(cls))

Tag20Names == { Str_getTitle, Str_getGenre, Str_getCast }

\* A getter called on one of the item's tag wrappers (modern adapter).
CallTag20 ==
  /\ adapter = "k20"
  /\ \E w \in DOMAIN wrappers, name \in Tag20Names :
       LET r == k20_tag_method(wrappers[w].cls, name) IN
       /\ op' = TagOp(name, << >>)
       /\ op_tag' = w
       /\ calls' = r.calls
       /\ out' = r.out
  /\ host_rejects' = {}
  /\ UNCHANGED << mixVars, loadVars, propVars, tagVars, li_videoInfoTag, li_musicInfoTag,
                  wrappers, set_calls >>

(***************************************************************************)
(* lib/kover/k19.py: GetSetMixin                                           *)
(***************************************************************************)

Str_get == << "g","e","t" >>
Str_set == << "s","e","t" >>
Str_getName == << "g","e","t","N","a","m","e" >>
Str_setName == << "s","e","t","N","a","m","e" >>
Str_getOrder == << "g","e","t","O","r","d","e","r" >>
Str_setOrder == << "s","e","t","O","r","d","e","r" >>
Str_getname == << "g","e","t","n","a","m","e" >>
Str_setname == << "s","e","t","n","a","m","e" >>
Str_getTings == << "g","e","t","T","i","n","g","s" >>
Str_tings == << "t","i","n","g","s" >>

\* the fields of the Actor dataclass
ActorFields == { Str_name, Str_role, Str_order, Str_thumbnail }

\* Actor(): every field at its default
Actor_init ==
  [k \in ActorFields |-> IF k = Str_order THEN PyInt(0 - 1) ELSE PyStr(<< >>)]

\* the functions __getattr__ makes, closed over the attribute name
PyGetter(attr) == [t |-> "getter", attr |-> attr]
PySetter(attr) == [t |-> "setter", attr |-> attr]

\* key = f'{key[3].lower()}{key[4:]}'
MixinAttr(key) == << LowerChar(key[4]) >> \o StrSlice(key, 4, Len(key))

\* GetSetMixin.__getattr__(self, key)
GetSetMixin_getattr(key) ==
  IF StartsWith(key, Str_get) /\ SliceIsUpper(StrSlice(key, 3, 4))
  THEN Returned(PyGetter(MixinAttr(key)))
  ELSE IF StartsWith(key, Str_set)
  THEN IF Len(key) > 3
       THEN Returned(PySetter(MixinAttr(key)))
       ELSE Raised("IndexError")
  ELSE Raised("AttributeError")

\* getattr(obj, key): the instance's attribute, __getattr__ when it has none
obj_getattr(attrs, key) ==
  IF key \in DOMAIN attrs THEN Returned(attrs[key]) ELSE GetSetMixin_getattr(key)

\* obj.key(*args): << outcome, the instance's attributes afterwards >>
obj_call(attrs, key, args) ==
  LET f == obj_getattr(attrs, key) IN
  IF f.exc # "none" THEN << f, attrs >>
  ELSE IF f.ret.t = "getter"
  THEN IF args = << >>
       THEN << obj_getattr(attrs, f.ret.attr), attrs >>
       ELSE << Raised("TypeError"), attrs >>
  ELSE IF f.ret.t = "setter"
  THEN IF Len(args) = 1
       THEN << Returned(PyNone), DictPut(attrs, f.ret.attr, args[1]) >>
       ELSE << Raised("TypeError"), attrs >>
  ELSE << Raised("TypeError"), attrs >>

\* Names looked up on the object and values given to its setters.
MixinNames == { Str_getName, Str_setName, Str_getOrder, Str_setOrder,
                Str_getTitle, Str_getTings, Str_getname, Str_setname,
                Str_settings, Str_set, Str_get, Str_name, Str_tings, Str_foo }

MixinValues == { PyStr(Str_A), PyInt(5) }

MixinArgs == { << >> } \cup { << v >> : v \in MixinValues }

\* getattr(actor, key)
MixinGetattr ==
  /\ \E key \in MixinNames :
       /\ op' = [name |-> "getattr", args |-> << PyStr(key) >>]
       /\ out' = obj_getattr(actor_obj, key)
  /\ calls' = << >>
  /\ host_rejects' = {}
  /\ UNCHANGED << mixVars, loadVars, propVars, tagVars, wrapVars >>

\* actor.key(*args)
MixinCall ==
  /\ \E key \in MixinNames, args \in MixinArgs :
       \E r \in { obj_call(actor_obj, key, args) } :
         /\ op' = [name |-> "call", args |-> << PyStr(key) >> \o args]
         /\ out' = r[1]
         /\ actor_obj' = r[2]
  /\ calls' = << >>
  /\ host_rejects' = {}
  /\ UNCHANGED << loadVars, propVars, tagVars, wrapVars >>

\* Actor() as constructed
InitActor == actor_obj = Actor_init

(***************************************************************************)
(* lib/kover/k20.py: the helpers called on their own                       *)
(***************************************************************************)

\* The numbers written out for int_or_none: a sign, an integer part and a
\* fraction part.
NumSigns == { << >>, << "-" >> }

NumWholes == { << "0" >>, << "1" >>, << "2" >>, << "3" >>, << "1","2" >>,
               << "9","9" >>, << "1",",","2","3","4" >> }

NumFractions == { << >>, << "." >>, << ".","0" >>, << ".","4" >>, << ".","5" >>,
                  << ".","6" >>, << ".","4","9" >>, << ".","5","1" >> }

NumStrings == { s \o w \o f : s \in NumSigns, w \in NumWholes, f \in NumFractions }

\* What the callers hand to int_or_none.
IntInputs ==
  { PyInt(n) : n \in (0 - 3)..3 } \cup { PyInt(1234), PyNone, PyStr(<< >>) }
    \cup { PyStr(s) : s \in NumStrings }
    \cup { PyStr(Str_abc), PyStr(<< "1",".","2",".","3" >>) }

\* int_or_none(tag, value)
IntOrNone ==
  /\ \E value \in IntInputs :
       \E r \in { int_or_none(value) } :
         /\ op' = [name |-> "int_or_none", args |-> << value >>]
         /\ out' = IF r.exc = "none" THEN Returned(r.ret) ELSE Raised(r.exc)
  /\ calls' = << >>
  /\ host_rejects' = {}
  /\ UNCHANGED << mixVars, loadVars, propVars, tagVars, wrapVars >>

(***************************************************************************)
(* Initial states and specifications                                       *)
(***************************************************************************)

\* ListItem.__init__ over a fresh host item
InitItem ==
  /\ li_resume_time = PyNone
  /\ li_resume_total_time = PyNone
  /\ host_resume = << PyInt(0), PyInt(0) >>
  /\ host_props = << >>
  /\ host_tag = << >>
  /\ op = NoOp
  /\ calls = << >>
  /\ out = Returned(PyNone)
  /\ host_rejects = {}
  /\ hist_resume = PyNone
  /\ hist_total = PyNone
  /\ hist_info = NoInfo
  /\ li_videoInfoTag = 0
  /\ li_musicInfoTag = 0
  /\ wrappers = << >>
  /\ op_tag = 0
  /\ set_calls = 0

InitLoad ==
  /\ label \in BuildLabels
  /\ pc = "start"
  /\ version_info = << >>
  /\ version = 0
  /\ adapter = "none"
  /\ patched = FALSE
  /\ gui_ListItem = "host"
  /\ xbmc_attrs = {}
  /\ installs = 0
  /\ patch_calls = 0

\* The process after `import kover; kover.patch()` on a host reporting lbl.
InitPatched(lbl) ==
  /\ label = lbl
  /\ pc = "loaded"
  /\ version_info = get_kodi_version_info(lbl)
  /\ version = EffectiveVersion(version_info)
  /\ adapter = SelectedAdapter(version)
  /\ patched = TRUE
  /\ gui_ListItem = adapter
  /\ xbmc_attrs = IF adapter = "k19" THEN K19Names ELSE {}
  /\ installs = 1
  /\ patch_calls = 1

vars == << loadVars, itemVars, mixVars >>

\* Loading the module and activating the adapter.
Init == InitLoad /\ InitItem /\ InitActor

Next == LoadModule \/ PatchK19 \/ PatchK20

Spec == Init /\ [][Next]_vars

\* ListItem(...): another item is constructed and used from here on.
NewListItem ==
  /\ op # NoOp
  /\ li_resume_time' = PyNone
  /\ li_resume_total_time' = PyNone
  /\ host_resume' = << PyInt(0), PyInt(0) >>
  /\ host_props' = << >>
  /\ host_tag' = << >>
  /\ op' = NoOp
  /\ calls' = << >>
  /\ out' = Returned(PyNone)
  /\ host_rejects' = {}
  /\ hist_resume' = PyNone
  /\ hist_total' = PyNone
  /\ hist_info' = NoInfo
  /\ li_videoInfoTag' = 0
  /\ li_musicInfoTag' = 0
  /\ wrappers' = << >>
  /\ op_tag' = 0
  /\ set_calls' = 0
  /\ UNCHANGED << mixVars, loadVars >>

\* Properties of a list item of the modern adapter.
InitProps == InitPatched(<< "2", "0", ".", "1" >>) /\ InitItem /\ InitActor

NextProps == SetProperty \/ GetProperty \/ SetProperties

SpecProps == InitProps /\ [][NextProps]_vars

\* setInfo on list items of the modern adapter.
InitInfo == InitPatched(<< "2", "0", ".", "1" >>) /\ InitItem /\ InitActor

NextInfo ==
  SetInfo \/ NewListItem \/ GetVideoInfoTag \/ GetMusicInfoTag \/ CallTag20

SpecInfo == InitInfo /\ [][NextInfo]_vars

\* The cast of a list item of the modern adapter, set on the item and read
\* through its tag wrappers.
InitCast == InitPatched(<< "2", "0", ".", "1" >>) /\ InitItem /\ InitActor

NextCast ==
  GetVideoInfoTag \/ GetMusicInfoTag \/ SetCast \/ CallTag20 \/ NewListItem

SpecCast == InitCast /\ [][NextCast]_vars

\* The ratings of list items of the modern adapter.
InitRatings == InitPatched(<< "2", "0", ".", "1" >>) /\ InitItem /\ InitActor

NextRatings == SetRating \/ GetRating \/ GetVotes \/ NewListItem

SpecRatings == InitRatings /\ [][NextRatings]_vars

\* The streams of list items of the modern adapter.
InitStreams == InitPatched(<< "2", "0", ".", "1" >>) /\ InitItem /\ InitActor

NextStreams == AddStreamInfo \/ NewListItem

SpecStreams == InitStreams /\ [][NextStreams]_vars

\* The tag accessors of either adapter and the legacy adapter's tag wrappers.
TagLabels == { << "1", "9", ".", "1" >>, << "2", "0", ".", "1" >> }

InitTags == (\E lbl \in TagLabels : InitPatched(lbl)) /\ InitItem /\ InitActor

NextTags ==
  GetVideoInfoTag \/ GetMusicInfoTag \/ NewWrapper \/ CallTag \/ NewListItem

SpecTags == InitTags /\ [][NextTags]_vars

\* An Actor of the legacy adapter, used through GetSetMixin.
InitMixin == InitPatched(<< "1", "9", ".", "1" >>) /\ InitItem /\ InitActor

NextMixin == MixinGetattr \/ MixinCall

SpecMixin == InitMixin /\ [][NextMixin]_vars

\* The integer helper of the modern adapter called on its own.
InitHelpers == InitPatched(<< "2", "0", ".", "1" >>) /\ InitItem /\ InitActor

NextHelpers == IntOrNone

SpecHelpers == InitHelpers /\ [][NextHelpers]_vars

(***************************************************************************)
(* Claims about the version resolver and activation                        *)
(***************************************************************************)

Str_18_9_700 == << "1", "8", ".", "9", ".", "7", "0", "0" >>
Str_18_9_701 == << "1", "8", ".", "9", ".", "7", "0", "1" >>
Str_19_89    == << "1", "9", ".", "8", "9" >>
Str_19_90    == << "1", "9", ".", "9", "0" >>
Str_20_1     == << "2", "0", ".", "1" >>

\* The three-way rule of the specification, on the components of a triple.
ThreeWayRule(major, minor, build) ==
  IF major < 18 \/ (major = 18 /\ (minor < 9 \/ (minor = 9 /\ build < 701)))
  THEN major
  ELSE IF major < 19 \/ (major = 19 /\ minor < 90)
  THEN 19
  ELSE IF minor >= 90 THEN major + 1 ELSE major

\* C1: once the module is loaded, the effective major follows the three-way
\* rule on the parsed triple, which always has three components (missing ones
\* are 0); the build strings "18.9.700", "18.9.701", "19.89", "19.90", "20.1"
\* give 18, 19, 19, 20, 20.
C1_EffectiveMajor ==
  pc = "loaded" =>
    /\ Len(version_info) = 3
    /\ version = ThreeWayRule(version_info[1], version_info[2], version_info[3])
    /\ (label = Str_18_9_700 => version_info = << 18, 9, 700 >> /\ version = 18)
    /\ (label = Str_18_9_701 => version_info = << 18, 9, 701 >> /\ version = 19)
    /\ (label = Str_19_89 => version_info = << 19, 89, 0 >> /\ version = 19)
    /\ (label = Str_19_90 => version_info = << 19, 90, 0 >> /\ version = 20)
    /\ (label = Str_20_1 => version_info = << 20, 1, 0 >> /\ version = 20)

C1_Witness == pc = "loaded" /\ label = Str_19_90 /\ version = 20

\* C2: the first patch() installs the selected adapter's ListItem and sets the
\* marker; once the marker is set, no later step changes the marker, the
\* ListItem binding, the names bound in xbmc or the number of installations.
C2_ActivationOnce ==
  /\ [](~patched => gui_ListItem = "host" /\ installs = 0 /\ patch_calls = 0)
  /\ [](patch_calls > 0 => patched /\ gui_ListItem = adapter /\ installs = 1)
  /\ [][patched => /\ patched'
                   /\ gui_ListItem' = gui_ListItem
                   /\ xbmc_attrs' = xbmc_attrs
                   /\ installs' = installs]_vars

C2_Witness == patch_calls >= 2 /\ patched /\ installs = 1

\* C3: the adapter is a function of the effective major alone (k19 below 20,
\* k20 otherwise), and xbmcgui.ListItem is only ever the host's class or the
\* selected adapter's class, the latter once patch() has been called.
C3_AdapterSelection ==
  pc = "loaded" =>
    /\ (version < 20 => adapter = "k19")
    /\ (version >= 20 => adapter = "k20")
    /\ gui_ListItem \in {"host", adapter}
    /\ (patch_calls > 0 => gui_ListItem = adapter)
    /\ (adapter = "k20" => xbmc_attrs = {})

C3_Witness == patch_calls > 0 /\ version = 20 /\ gui_ListItem = "k20"

\* The leading token of a label is a dotted numeric string: every component
\* between dots is a run of digits, the last one optionally followed by a
\* "-suffix".
DottedNumeric(tok) ==
  LET parts == StrSplit(tok, ".", Len(tok))
  IN  /\ \A i \in 1..(Len(parts) - 1) : AllDigits(parts[i])
      /\ AllDigits(PartitionHead(parts[Len(parts)], "-"))

MalformedLabel(lbl) == lbl # << >> /\ ~DottedNumeric(PartitionHead(lbl, " "))

\* C4: for an empty or malformed label the import does not raise and the
\* version triple is the default baseline.
C4_NeverFatal ==
  (pc # "start" /\ (label = << >> \/ MalformedLabel(label))) =>
     /\ pc = "loaded"
     /\ Len(version_info) = 3
     /\ version_info = get_kodi_version_info(VersionDefault)

(***************************************************************************)
(* Claims about the modern adapter's resume point                          *)
(***************************************************************************)

\* The last call was setProperty with the key ResumeTime or TotalTime, in any
\* letter case.
LastSetSynthetic ==
  /\ op.name = "setProperty"
  /\ StrLower(op.args[1].s) \in { Str_resumetime, Str_totaltime }

LastGot(lower_key) ==
  /\ op.name = "getProperty"
  /\ StrLower(op.args[1].s) = lower_key

\* C5: once both ResumeTime and TotalTime have been set, the resume-point call
\* carries (last ResumeTime, last TotalTime), the host holds that pair, and
\* getProperty reads the two values back.
C5_ResumePointBoth ==
  (hist_resume # PyNone /\ hist_total # PyNone) =>
     /\ (LastSetSynthetic =>
           calls = << HostCall("Video", "setResumePoint", << hist_resume, hist_total >>) >>)
     /\ host_resume = << hist_resume, hist_total >>
     /\ (LastGot(Str_resumetime) => out = Returned(hist_resume))
     /\ (LastGot(Str_totaltime) => out = Returned(hist_total))

\* C6: when only one of ResumeTime, TotalTime has ever been set, setting it
\* issues the resume-point call with that value in its own position and 0 in
\* the other, without raising; TotalTime then reads as 0 until it is set.
C6_ResumePointOne ==
  LET time  == IF hist_resume # PyNone THEN hist_resume ELSE PyInt(0)
      total == IF hist_total # PyNone THEN hist_total ELSE PyInt(0)
  IN  ((hist_resume = PyNone) # (hist_total = PyNone)) =>
        /\ (LastSetSynthetic =>
              /\ \/ calls = << HostCall("Video", "setResumePoint", << time, total >>) >>
                 \/ /\ total = PyInt(0)
                    /\ calls = << HostCall("Video", "setResumePoint", << time >>) >>
              /\ out = Returned(PyNone))
        /\ host_resume = << time, total >>
        /\ (LastGot(Str_totaltime) /\ hist_total = PyNone => out = Returned(PyInt(0)))

(***************************************************************************)
(* Claims about the modern adapter's setInfo                               *)
(***************************************************************************)

LastSetInfo == op.name = "setInfo"

\* The dictionary given to the last setInfo, and the tag its type names.
GivenItems == op.args[2].d
GivenTag == HostTagOf(StrCapitalize(op.args[1].s))

KnownPair(p) == IsInfoLabelKey(StrLower(p[1]))

ItemCalls == SelectSeq(calls, LAMBDA c : c.o = "item")
TagCalls == SelectSeq(calls, LAMBDA c : c.o # "item")

\* What the chain of a known pair does on the given tag.
ChainOfPair(p) ==
  RunChain(GivenTag, InfoLabelOps(StrLower(p[1])), p[2], host_rejects)

\* The host calls of the chains of the known pairs among the first n pairs.
RECURSIVE ChainCallsUpTo(_)
ChainCallsUpTo(n) ==
  IF n = 0 THEN << >>
  ELSE ChainCallsUpTo(n - 1)
         \o (IF KnownPair(GivenItems[n]) THEN ChainOfPair(GivenItems[n]).calls
             ELSE << >>)

\* C7: when setInfo returns, the tag has received exactly the calls of the
\* chains of the known keys (matched in any letter case), in dictionary order,
\* and the unknown pairs, with key and value as given and in order, went into
\* one host setInfo call made last; there is no such call when no key is
\* unknown, and no known key is in it.
C7_SetInfoRouting ==
  (LastSetInfo /\ out.exc = "none") =>
     LET unknown == SelectSeq(GivenItems, LAMBDA p : ~KnownPair(p)) IN
     /\ TagCalls = ChainCallsUpTo(Len(GivenItems))
     /\ \A i \in DOMAIN TagCalls : TagCalls[i].o = GivenTag
     /\ (unknown = << >> => ItemCalls = << >>)
     /\ (unknown # << >> =>
           /\ Len(ItemCalls) = 1
           /\ calls[Len(calls)] = ItemCalls[1]
           /\ ItemCalls[1].m = "setInfo"
           /\ ItemCalls[1].a[2] = PyDict(unknown))
     /\ \A i \in DOMAIN ItemCalls :
          \A j \in DOMAIN ItemCalls[i].a[2].d :
             ~KnownPair(ItemCalls[i].a[2].d[j])

C7_Witness ==
  /\ LastSetInfo /\ out.exc = "none"
  /\ GivenItems = << << Str_Title, PyStr(Str_abc) >>, << Str_Bar, PyInt(7) >> >>
  /\ calls = << HostCall("Video", "setTitle", << PyStr(Str_abc) >>),
                HostCall("item", "setInfo",
                         << PyStr(Str_Video),
                            PyDict(<< << Str_Bar, PyInt(7) >> >>) >>) >>

\* The chain of the n-th pair raises.
PairFails(n) ==
  KnownPair(GivenItems[n]) /\ ChainOfPair(GivenItems[n]).exc # "none"

\* The host accepted the call.
Accepted(c) == c.o # "item" /\ c.m \notin host_rejects

\* C8: when the chain of a known key raises, setInfo raises that exception;
\* the tag has received the calls of the chains of the earlier known keys and
\* of the failing chain up to its failing step, and none for a later key; and
\* the tag holds the arguments of the last accepted call of every setter.
C8_SetInfoFailure ==
  (LastSetInfo /\ GivenTag # "missing" /\ \E n \in DOMAIN GivenItems : PairFails(n)) =>
     LET k == CHOOSE n \in DOMAIN GivenItems :
                 PairFails(n) /\ \A m \in 1..(n - 1) : ~PairFails(m)
     IN
     /\ out = Raised(ChainOfPair(GivenItems[k]).exc)
     /\ TagCalls = ChainCallsUpTo(k)
     /\ DOMAIN host_tag = { << calls[i].o, calls[i].m >> :
                              i \in { j \in DOMAIN calls : Accepted(calls[j]) } }
     /\ \A i \in DOMAIN calls :
          (/\ Accepted(calls[i])
           /\ \A j \in (i + 1)..Len(calls) :
                 ~(Accepted(calls[j]) /\ calls[j].o = calls[i].o /\ calls[j].m = calls[i].m))
          => host_tag[<< calls[i].o, calls[i].m >>] = calls[i].a

C8_Witness ==
  /\ LastSetInfo
  /\ GivenItems = << << Str_title, PyInt(7) >>, << Str_year, PyStr(Str_abc) >> >>
  /\ out = Raised("ValueError")
  /\ host_tag = [x \in { << "Video", "setTitle" >> } |-> << PyInt(7) >>]

(***************************************************************************)
(* Claims about the tag wrappers                                           *)
(***************************************************************************)

\* the wrappers an accessor of the item has constructed
MadeBy(name) == { i \in DOMAIN wrappers : wrappers[i].by = name }

\* the wrappers that existed before the step are still there, in place
WrappersKept ==
  /\ Len(wrappers') >= Len(wrappers)
  /\ \A i \in DOMAIN wrappers :
       /\ wrappers'[i].cls = wrappers[i].cls
       /\ wrappers'[i].by = wrappers[i].by

\* a step on the same item whose call was accessor `name`, the item's cache
\* field being `cached` before and `cached_after` after the step
AccessorStep(name, cls, cached, cached_after) ==
  op'.name = name =>
    /\ cached_after # 0
    /\ cached_after \in DOMAIN wrappers'
    /\ wrappers'[cached_after].cls = cls
    /\ wrappers'[cached_after].by = name
    /\ out' = Returned(PyRef(cached_after))
    /\ (cached # 0 => wrappers' = wrappers)

C9_Step ==
  op' # NoOp =>
    /\ WrappersKept
    /\ (li_videoInfoTag # 0 => li_videoInfoTag' = li_videoInfoTag)
    /\ (li_musicInfoTag # 0 => li_musicInfoTag' = li_musicInfoTag)
    /\ AccessorStep("getVideoInfoTag", "InfoTagVideoWrapper",
                    li_videoInfoTag, li_videoInfoTag')
    /\ AccessorStep("getMusicInfoTag", "InfoTagMusicWrapper",
                    li_musicInfoTag, li_musicInfoTag')
    /\ (op'.name = "getVideoInfoTag" =>
           /\ li_musicInfoTag' = li_musicInfoTag
           /\ MadeBy("getMusicInfoTag")' = MadeBy("getMusicInfoTag"))
    /\ (op'.name = "getMusicInfoTag" =>
           /\ li_videoInfoTag' = li_videoInfoTag
           /\ MadeBy("getVideoInfoTag")' = MadeBy("getVideoInfoTag"))

\* C9: in either adapter the accessors of one list item construct at most
\* one video wrapper and at most one music wrapper; every getVideoInfoTag
\* returns the wrapper cached by the first one, likewise getMusicInfoTag;
\* an access of one kind leaves the other kind's cache and wrappers alone,
\* and a cache field once set keeps its wrapper for the life of the item.
C9_LazyTagCache ==
  /\ [](/\ Cardinality(MadeBy("getVideoInfoTag")) <= 1
        /\ Cardinality(MadeBy("getMusicInfoTag")) <= 1
        /\ (li_videoInfoTag # 0 => MadeBy("getVideoInfoTag") = { li_videoInfoTag })
        /\ (li_musicInfoTag # 0 => MadeBy("getMusicInfoTag") = { li_musicInfoTag }))
  /\ [][C9_Step]_vars

\* getVideoInfoTag answered from the cache while the music wrapper exists too
C9_Witness ==
  /\ op.name = "getVideoInfoTag"
  /\ calls = << >>
  /\ li_videoInfoTag # 0
  /\ li_musicInfoTag # 0
  /\ out = Returned(PyRef(li_videoInfoTag))
  /\ li_videoInfoTag # li_musicInfoTag

\* the setters the wrapper classes write out, with their side-table keys
ExplicitKeys(cls) ==
  { << Str_setDbId, Str_dbid >>, << Str_setMediaType, Str_mediatype >>,
    << Str_setDuration, Str_duration >>, << Str_setYear, Str_year >> }
  \cup (IF cls = "InfoTagMusicWrapper"
        THEN { << Str_setTrack, Str_tracknumber >>, << Str_setDisc, Str_discnumber >> }
        ELSE {})

\* names the wrapper's class defines itself
ClassDefines(cls) ==
  { p[1] : p \in ExplicitKeys(cls) }
  \cup (IF cls = "InfoTagMusicWrapper" THEN { Str_setURL } ELSE {})

\* setXxx, for a name neither the class nor the owning list item defines
GenericSetterName(wr, name) ==
  /\ name \notin ClassDefines(wr.cls)
  /\ ~(wr.list_item /\ name \in ItemDefines)
  /\ Len(name) > 3
  /\ SubSeq(name, 1, 3) = << "s", "e", "t" >>
  /\ IsUpperChar(name[4])

\* the step stored value under key in wrapper w's side-table, touched no
\* other entry and no other wrapper, and synchronized as the wrapper is set
StoredAndSynced(w, key, value) ==
  /\ DOMAIN wrappers' = DOMAIN wrappers
  /\ \A i \in DOMAIN wrappers : i # w => wrappers'[i] = wrappers[i]
  /\ DOMAIN wrappers'[w].data = (DOMAIN wrappers[w].data) \cup { key }
  /\ wrappers'[w].data[key] = value
  /\ \A k \in DOMAIN wrappers[w].data :
       k # key => wrappers'[w].data[k] = wrappers[w].data[k]
  /\ calls' = IF wrappers[w].sync
              THEN << HostCall("item", "setInfo",
                               << PyStr(TypeOf(wrappers[w].cls)),
                                  PyDict(<< << key, value >> >>) >>) >>
              ELSE << >>

C10_Step ==
  op'.name = "tag" =>
    LET w == op_tag'
        name == op'.method
        args == op'.args
    IN  /\ (GenericSetterName(wrappers[w], name) /\ Len(args) = 1 =>
              StoredAndSynced(w, StrLower(SubSeq(name, 4, Len(name))), args[1]))
        /\ \A p \in ExplicitKeys(wrappers[w].cls) :
             (name = p[1] /\ Len(args) = (IF name = Str_setDbId THEN 2 ELSE 1)) =>
                StoredAndSynced(w, p[2], args[1])

\* C10: in the legacy adapter, setXxx(value) on a tag wrapper, for a name
\* the owning list item does not define, stores value in the wrapper's
\* side-table under the lowercased xxx and makes exactly one host call
\* setInfo(<tag type>, {xxx: value}) when the wrapper synchronizes, none
\* when it does not; setDbId(id, type), setMediaType, setDuration, setYear
\* and the music wrapper's setTrack, setDisc do the same under the keys
\* dbid, mediatype, duration, year, tracknumber, discnumber.
C10_TagSetters == [][C10_Step]_vars

\* a generic setter on the item's synchronizing video wrapper, which already
\* held a field set through setTrack
C10_Witness ==
  /\ op.name = "tag"
  /\ op.method = Str_setTitle
  /\ op.args = << PyStr(Str_abc) >>
  /\ wrappers[op_tag].sync
  /\ wrappers[op_tag].cls = "InfoTagVideoWrapper"
  /\ calls = << HostCall("item", "setInfo",
                         << PyStr(Str_video),
                            PyDict(<< << Str_title, PyStr(Str_abc) >> >>) >>) >>
  /\ DOMAIN wrappers[op_tag].data = { Str_title, Str_track }

(***************************************************************************)
(* Claims about the modern adapter's round trips and delegations           *)
(***************************************************************************)

\* the last call was wrapper.<method>() on a wrapper of class cls
LastTagCall(method, cls) ==
  /\ op.name = "tag"
  /\ op.method = method
  /\ wrappers[op_tag].cls = cls

\* the values the dictionary gave under a key that lowercases to `lower`
ValuesUnder(items, lower) ==
  { items[i][2] : i \in { j \in DOMAIN items : StrLower(items[j][1]) = lower } }

\* C11: after setInfo('video', {'title': X}) has returned, the key in any
\* letter case and X a string, getTitle() of the item's video tag returns X.
C11_TitleRoundTrip ==
  \A X \in ValuesUnder(hist_info.items, Str_title) :
    ( /\ LastTagCall(Str_getTitle, "InfoTagVideoWrapper")
      /\ hist_info.type = Str_video
      /\ hist_info.exc = "none"
      /\ ValuesUnder(hist_info.items, Str_title) = { X }
      /\ X.t = "str" )
    => out = Returned(X)

\* getTitle() answers 'abc' after setInfo('video', {'Title': 'abc'})
C11_Witness ==
  /\ LastTagCall(Str_getTitle, "InfoTagVideoWrapper")
  /\ hist_info = [ type |-> Str_video,
                   items |-> << << Str_Title, PyStr(Str_abc) >> >>,
                   exc |-> "none" ]
  /\ out = Returned(PyStr(Str_abc))

\* the line "Name: Role" of an actor dictionary
CastLine(a) ==
  DictGet(a.d, Str_name, PyNone).s \o << ":", " " >> \o DictGet(a.d, Str_role, PyNone).s

\* the actors' lines in the order given, a newline between two lines
RECURSIVE CastText(_)
CastText(actors) ==
  IF actors = << >> THEN << >>
  ELSE CastLine(Head(actors))
         \o (IF Tail(actors) = << >> THEN << >>
             ELSE << "\n" >> \o CastText(Tail(actors)))

\* every dictionary names the actor and the role
NamesAndRoles(actors) ==
  \A i \in DOMAIN actors :
    \A k \in { Str_name, Str_role } : \E j \in DOMAIN actors[i].d : actors[i].d[j][1] = k

C12_Step ==
  ( /\ op.name = "setCast"
    /\ out.exc = "none"
    /\ NamesAndRoles(op.args[1].l)
    /\ op'.name = "tag"
    /\ op'.method = Str_getCast
    /\ wrappers'[op_tag'].cls = "InfoTagVideoWrapper" )
  => /\ out' = Returned(PyStr(CastText(op.args[1].l)))
     /\ (op.args[1].l = << >> => out'.ret.s = << >>)
     /\ (op.args[1].l = << PyDict(<< << Str_name, PyStr(Str_A) >>,
                                     << Str_role, PyStr(Str_Hero) >>,
                                     << Str_order, PyInt(0) >> >>) >>
           => out'.ret.s = << "A", ":", " ", "H", "e", "r", "o" >>)

\* C12: after ListItem.setCast(actors) with dictionaries of name, role and
\* order, getCast() of the item's video tag wrapper returns the actors in
\* the order given as "Name: Role" lines joined by newlines: "A: Hero" for
\* the single actor A playing Hero, the empty string for an empty cast.
C12_CastRoundTrip == [][C12_Step]_vars

\* getCast() answered two lines for the two actors the host holds
C12_Witness ==
  /\ LastTagCall(Str_getCast, "InfoTagVideoWrapper")
  /\ << "Video", "setCast" >> \in DOMAIN host_tag
  /\ Len(host_tag[<< "Video", "setCast" >>][1].l) = 2
  /\ out = Returned(PyStr(<< "A", ":", " ", "H", "e", "r", "o", "\n",
                            "B", ":", " ", "a", "b", "c" >>))

\* the structured setter that belongs to a stream type
MatchingStreamSetter(type) ==
  CASE type = Str_video -> "addVideoStream"
    [] type = Str_audio -> "addAudioStream"
    [] type = Str_subtitle -> "addSubtitleStream"

C13_Step ==
  op'.name = "addStreamInfo" =>
    LET type == op'.args[1].s IN
    IF type \in { Str_video, Str_audio, Str_subtitle }
    THEN /\ Len(calls') <= 1
         /\ \A i \in DOMAIN calls' :
              calls'[i].o = "Video" /\ calls'[i].m = MatchingStreamSetter(type)
         /\ (out'.exc = "none" =>
               /\ Len(calls') = 1
               /\ HostStreams' = Append(HostStreams,
                                        << MatchingStreamSetter(type), calls'[1].a[1] >>))
    ELSE /\ out'.exc = "ValueError"
         /\ calls' = << >>
         /\ host_tag' = host_tag

\* C13: addStreamInfo(type, values) of the modern adapter makes, for type
\* 'video', 'audio' or 'subtitle', one call to addVideoStream,
\* addAudioStream or addSubtitleStream respectively and to no other setter;
\* for any other type it raises ValueError and adds no stream to the tag.
C13_AddStreamInfo == [][C13_Step]_vars

\* an audio stream added after the video stream, each by its own setter
C13_Witness ==
  /\ op.name = "addStreamInfo"
  /\ op.args[1].s = Str_audio
  /\ out.exc = "none"
  /\ Len(calls) = 1
  /\ calls[1].m = "addAudioStream"
  /\ Len(HostStreams) = 2
  /\ HostStreams[1][1] = "addVideoStream"
  /\ HostStreams[2][1] = "addAudioStream"

C14_Step ==
  /\ (op'.name \in { "getVotes", "getRating" } =>
        /\ Len(calls') = 1
        /\ calls'[1].o = "Video")
  /\ (op.name = "setRating" =>
        /\ calls = << HostCall("Video", "setRating",
                               << op.args[2], op.args[3], op.args[1], op.args[4] >>) >>
        /\ (op'.name = "getRating" /\ op'.args[1] = op.args[1] =>
              out' = Returned(op.args[2]))
        /\ (op'.name = "getVotes" /\ op'.args[1] = op.args[1] =>
              out' = Returned(op.args[3])))

\* C14: getVotes(key) of the modern adapter is one delegation to the video
\* tag that returns the vote count of rating type key: after
\* setRating(type, rating, votes), forwarded to the host as
\* setRating(rating, votes, type, isDefault), getVotes(type) returns votes
\* and getRating(type) returns rating.
C14_VotesRoundTrip == [][C14_Step]_vars

\* the pairs of a dictionary whose key is not ResumeTime or TotalTime in any
\* letter case
GenericPairs(items) ==
  SelectSeq(items, LAMBDA p : StrLower(p[1]) \notin { Str_resumetime, Str_totaltime })

GenericCalls(cs) == SelectSeq(cs, LAMBDA c : c.o = "item")
ResumeCalls(cs) == SelectSeq(cs, LAMBDA c : c.o = "Video")

C15_Step ==
  op'.name = "setProperties" =>
    LET items == op'.args[1].d
        rest == GenericPairs(items)
    IN  /\ GenericCalls(calls') =
             (IF rest = << >> THEN << >>
              ELSE << HostCall("item", "setProperties", << PyDict(rest) >>) >>)
        /\ DOMAIN host_props' =
             (DOMAIN host_props) \cup { StrLower(rest[i][1]) : i \in DOMAIN rest }
        /\ Len(ResumeCalls(calls')) <= 1
        /\ (rest = items => ResumeCalls(calls') = << >>)
        /\ \A i \in DOMAIN calls' :
             calls'[i].o = "Video" => calls'[i].m = "setResumePoint"
        /\ li_resume_time' = LastGiven(items, Str_resumetime, li_resume_time)
        /\ li_resume_total_time' = LastGiven(items, Str_totaltime, li_resume_total_time)
        /\ (rest # items =>
              ResumeCalls(calls') =
                set_resume_point_calls(li_resume_time', li_resume_total_time'))

AccessorName(key) ==
  /\ StartsWith(key, Str_get) \/ StartsWith(key, Str_set)
  /\ Len(key) > 3
  /\ IsUpperChar(key[4])

\* xxx of getXxx / setXxx
AccessorAttr(key) == << LowerChar(key[4]) >> \o SubSeq(key, 5, Len(key))

\* C16: a name the object does not define is synthesized only when it is
\* 'get' or 'set' followed by an upper-case letter: getXxx() then reads the
\* attribute xxx and setXxx(v) writes it; every other undefined name
\* ('settings' and 'set' among them) fails with AttributeError, and nothing
\* is synthesized or written for it.
C16_Step ==
  LET key == op'.args[1].s
      args == Tail(op'.args)
  IN  (op'.name \in { "getattr", "call" } /\ key \notin DOMAIN actor_obj) =>
        IF AccessorName(key)
        THEN /\ op'.name = "getattr" =>
                  /\ out'.exc = "none"
                  /\ out'.ret \in { PyGetter(AccessorAttr(key)),
                                    PySetter(AccessorAttr(key)) }
             /\ ( /\ op'.name = "call"
                  /\ StartsWith(key, Str_get)
                  /\ args = << >>
                  /\ AccessorAttr(key) \in DOMAIN actor_obj ) =>
                  /\ out' = Returned(actor_obj[AccessorAttr(key)])
                  /\ actor_obj' = actor_obj
             /\ ( /\ op'.name = "call"
                  /\ StartsWith(key, Str_set)
                  /\ Len(args) = 1 ) =>
                  /\ out' = Returned(PyNone)
                  /\ actor_obj' = DictPut(actor_obj, AccessorAttr(key), args[1])
        ELSE /\ out' = Raised("AttributeError")
             /\ actor_obj' = actor_obj

C16_GetSetNames == [][C16_Step]_vars

(***************************************************************************)
(* Claims about the modern adapter's helpers                               *)
(***************************************************************************)

\* C17: getGenre() on the video and on the music wrapper returns the first
\* element of getGenres() when that list is not empty and the empty string
\* when it is empty.
C17_GetGenre ==
  \A cls \in { "InfoTagVideoWrapper", "InfoTagMusicWrapper" } :
    LastTagCall(Str_getGenre, cls) =>
      LET genres == HostField(HostTagOfWrapper(cls), "setGenres", PyList(<< >>)).l
      IN  out = Returned(IF genres # << >> THEN genres[1] ELSE PyStr(<< >>))

\* the integer nearest to n / d (d > 0), a half going up
NearestHalfUp(n, d) == (2 * n + d) \div (2 * d)

\* a string that writes a decimal number once its commas are removed
DecimalString(v) ==
  /\ v.t = "str"
  /\ HasChar(v.s, ".")
  /\ PyFloatOk(StrRemove(v.s, ","))

\* a string that writes an integer once its commas are removed
IntegerString(v) ==
  /\ v.t = "str"
  /\ ~HasChar(v.s, ".")
  /\ PyIntOk(StrRemove(v.s, ","))

\* C18: int_or_none returns an int unchanged; from a string it removes the
\* commas and then rounds to the nearest integer (half up) when the string
\* holds a '.', and parses it otherwise; '' and None give -1. "1,234" gives
\* 1234 and "12.6" gives 13, and the nearest-integer rule holds for every
\* decimal string, the negative ones included.
C18_IntOrNone ==
  op.name = "int_or_none" =>
    LET value == op.args[1]
        v == StrRemove(value.s, ",")
    IN  /\ value.t = "int" => out = Returned(value)
        /\ value \in { PyNone, PyStr(<< >>) } => out = Returned(PyInt(0 - 1))
        /\ IntegerString(value) => out = Returned(PyInt(PyIntVal(v)))
        /\ DecimalString(value) =>
             out = Returned(PyInt(NearestHalfUp(PyFloatNum(v), PyFloatDen(v))))
        /\ value = PyStr(<< "1",",","2","3","4" >>) => out = Returned(PyInt(1234))
        /\ value = PyStr(Str_12_6) => out = Returned(PyInt(13))

(***************************************************************************)
(* Claims about the order of the residual setInfo call                     *)
(***************************************************************************)

\* the first pair whose chain raises
FirstFailing ==
  CHOOSE n \in DOMAIN GivenItems : PairFails(n) /\ \A m \in 1..(n - 1) : ~PairFails(m)

\* C19: the host's bulk setInfo for the unknown keys is made only after every
\* pair was processed without error, as the last call. When the chain of a
\* known key raises, that call is never made, so no unknown key reaches the
\* host, not even one that precedes the failing key, while the chains of the
\* known keys that precede it have made their calls on the tag.
C19_ResidualLast ==
  (LastSetInfo /\ GivenTag # "missing") =>
     /\ ItemCalls # << >> =>
          /\ out.exc = "none"
          /\ \A n \in DOMAIN GivenItems : ~PairFails(n)
          /\ Len(ItemCalls) = 1
          /\ calls = TagCalls \o ItemCalls
          /\ TagCalls = ChainCallsUpTo(Len(GivenItems))
     /\ (\E n \in DOMAIN GivenItems : PairFails(n)) =>
          /\ out.exc # "none"
          /\ ItemCalls = << >>
          /\ \A i \in DOMAIN calls : calls[i].m # "setInfo"
          /\ LET before == ChainCallsUpTo(FirstFailing - 1)
             IN  before = SubSeq(calls, 1, Len(before))
          /\ \A m \in 1..(FirstFailing - 1) :
               KnownPair(GivenItems[m]) =>
                 \A j \in DOMAIN ChainOfPair(GivenItems[m]).calls :
                   LET c == ChainOfPair(GivenItems[m]).calls[j] IN
                   Accepted(c) => << c.o, c.m >> \in DOMAIN host_tag

\* an unknown key before a key whose chain raises: nothing reaches the host
C19_Witness ==
  /\ LastSetInfo
  /\ op.args[1].s = Str_video
  /\ GivenItems = << << Str_Bar, PyInt(7) >>, << Str_year, PyStr(Str_abc) >> >>
  /\ out = Raised("ValueError")
  /\ calls = << >>

====
